---- MODULE Spec2Model ----
(***************************************************************************)
(* A model of the worldbook assembly engine of kanka_to_md: the identity   *)
(* resolver and type classifier (entity_processing.py), the mention        *)
(* normalizer and anchor generator (markdown_utils.py), the section        *)
(* renderer and the paginator (worldbook_generator.py) and the call from   *)
(* process_entities (main.py).                                             *)
(*                                                                         *)
(* Strings are sequences of one-character strings; a missing dictionary    *)
(* key is the value Absent (an integer field) or AbsentStr (a string       *)
(* field).                                                                 *)
(***************************************************************************)
EXTENDS Integers, Sequences, FiniteSets, TLC

VARIABLES
    pc,               \* position of the run: which operation comes next
    entries,          \* main.py: the flat list of loaded entity records
    entities,         \* main.py: entities_by_type, the argument of generate_worldbook
    include_private,  \* the include_private switch of the run
    worldbook,        \* the outcome of generate_worldbook
    text,             \* markdown_utils.replace_mentions: its text argument
    text_map,         \* markdown_utils.replace_mentions: its entity_map argument
    replaced,         \* markdown_utils.replace_mentions: its result
    lines,            \* paginate_and_columnize: its lines argument
    lines_per_page,   \* paginate_and_columnize: its lines_per_page argument
    pages,            \* paginate_and_columnize: its result
    anchor,           \* markdown_utils.create_anchor_label: its result, and the result of applying it again
    anchor_name,      \* markdown_utils.create_anchor_label: its name argument (None at first)
    include_posts,    \* config.get("include_posts", True)
    config_file,      \* the file at config_path
    config,           \* what load_config returned
    fetch,            \* the call of fetch_with_retries in progress
    drive,            \* the Drive, the stored file id and the call of upload_or_update_file
    auth,             \* the token file and the call of get_drive_service
    run,              \* the run of main_with_config: step results, log and files
    sync              \* the campaign at Kanka, last_run.json and the saved entities

vars == <<pc, entries, entities, include_private, worldbook,
          text, text_map, replaced, lines, lines_per_page, pages,
          anchor,
          anchor_name,
          include_posts,
          config_file,
          config,
          fetch,
          drive,
          auth,
          run,
          sync>>

----------------------------------------------------------------------------
(* Bounds of the model. *)

MaxId == 2           \* type-local ids and reference targets are 1..MaxId
MaxTextLen == 6      \* characters of a text given to replace_mentions
MaxLines == 4        \* lines given to paginate_and_columnize
MaxLinesPerPage == 3 \* the lines_per_page values tried are 1..MaxLinesPerPage

----------------------------------------------------------------------------
(* Values. *)

Absent == 0 - 1                \* dict key missing (d.get(k) is None)
AbsentStr == <<"ABSENT">>     \* the same for a string-valued key
EmptyStr == <<>>

\* a display name that its anchor differs from
SampleName == <<"A", " ", "b">>

\* the result of an operation that has not run yet
NotRun == [done |-> FALSE, out |-> <<>>]

RECURSIVE Concat(_)
Concat(ss) == IF ss = <<>> THEN <<>> ELSE Head(ss) \o Concat(Tail(ss))

(* Python truthiness of an optional string: None and '' are falsy. *)
TruthyStr(s) == s # AbsentStr /\ s # EmptyStr

(* Python truthiness of an optional integer: None and 0 are falsy. *)
TruthyInt(n) == n # Absent /\ n # 0

----------------------------------------------------------------------------
(* Characters: the classes the regular expressions and str methods use. *)

Digits == {"0", "1", "2", "3", "4", "5", "6", "7", "8", "9"}
SpaceChars == {" ", "\n"}
\* characters of the model that are neither letters, digits nor the underscore
NonWordChars ==
    SpaceChars \cup {"[", "]", ":", "!", "-", "*", "(", ")", "#", "\\", "/",
                     "TM_sign"}

IsDigit(c) == c \in Digits
IsSpace(c) == c \in SpaceChars
\* \w of a str pattern: letters (accented ones too), digits and the underscore
IsWord(c) == c \notin NonWordChars

DigitValue(c) ==
    CASE c = "0" -> 0 [] c = "1" -> 1 [] c = "2" -> 2 [] c = "3" -> 3
      [] c = "4" -> 4 [] c = "5" -> 5 [] c = "6" -> 6 [] c = "7" -> 7
      [] c = "8" -> 8 [] c = "9" -> 9

DigitChar(d) ==
    CASE d = 0 -> "0" [] d = 1 -> "1" [] d = 2 -> "2" [] d = 3 -> "3"
      [] d = 4 -> "4" [] d = 5 -> "5" [] d = 6 -> "6" [] d = 7 -> "7"
      [] d = 8 -> "8" [] d = 9 -> "9"

(* int(s) of a string of decimal digits *)
RECURSIVE IntOf(_)
IntOf(ds) ==
    IF ds = <<>> THEN 0
    ELSE IntOf(SubSeq(ds, 1, Len(ds) - 1)) * 10 + DigitValue(ds[Len(ds)])

(* str(n) of a natural number *)
RECURSIVE StrOf(_)
StrOf(n) ==
    IF n < 10 THEN <<DigitChar(n)>>
    ELSE StrOf(n \div 10) \o <<DigitChar(n % 10)>>

(* str.lower() of one character *)
LowerChar(c) ==
    CASE c = "A" -> "a" [] c = "B" -> "b" [] c = "C" -> "c" [] c = "E" -> "e"
      [] c = "T" -> "t" [] c = "U" -> "u" [] c = "M" -> "m"
      [] c = "A_acute" -> "a_acute"
      [] OTHER -> c

(* unicodedata.normalize('NFKD', c) with the combining marks removed: the
   decomposition of an accented letter is the letter and a combining mark,
   the compatibility decomposition of the trade mark sign is "TM" *)
FoldChar(c) ==
    CASE c = "a_acute" -> <<"a">> [] c = "A_acute" -> <<"A">>
      [] c = "TM_sign" -> <<"T", "M">>
      [] OTHER -> <<c>>

----------------------------------------------------------------------------
(* markdown_utils.py *)

RECURSIVE StripLeft(_)
StripLeft(s) ==
    IF s # <<>> /\ IsSpace(Head(s)) THEN StripLeft(Tail(s)) ELSE s

RECURSIVE StripRight(_)
StripRight(s) ==
    IF s # <<>> /\ IsSpace(s[Len(s)])
    THEN StripRight(SubSeq(s, 1, Len(s) - 1)) ELSE s

(* str.strip() *)
Strip(s) == StripRight(StripLeft(s))

(* re.sub(r'\s+', '-', s): every maximal run of whitespace becomes one hyphen *)
RECURSIVE HyphenateSpaces(_)
HyphenateSpaces(s) ==
    IF s = <<>> THEN <<>>
    ELSE IF IsSpace(Head(s))
         THEN <<"-">> \o HyphenateSpaces(StripLeft(s))
         ELSE <<Head(s)>> \o HyphenateSpaces(Tail(s))

(* re.sub(r'[^\w\-]', '', s) *)
KeepWordAndHyphen(s) == SelectSeq(s, LAMBDA c : IsWord(c) \/ c = "-")

create_anchor_label(name) ==
    IF ~TruthyStr(name) THEN <<>>
    ELSE LET stripped == Strip(name)
             folded == Concat([i \in 1..Len(stripped) |->
                                  FoldChar(LowerChar(stripped[i]))])
         IN  KeepWordAndHyphen(HyphenateSpaces(folded))

(* text.replace('_', '\\_') *)
md_escape(s) ==
    IF ~TruthyStr(s) THEN <<>>
    ELSE Concat([i \in 1..Len(s) |->
                    IF s[i] = "_" THEN <<"\\", "_">> ELSE <<s[i]>>])

(* What a greedy \w+ consumes from position i: the length of the longest
   run of word characters starting there. *)
RECURSIVE WordRun(_, _)
WordRun(s, i) ==
    IF i <= Len(s) /\ IsWord(s[i]) THEN 1 + WordRun(s, i + 1) ELSE 0

(* The same for a greedy \d+. *)
RECURSIVE DigitRun(_, _)
DigitRun(s, i) ==
    IF i <= Len(s) /\ IsDigit(s[i]) THEN 1 + DigitRun(s, i + 1) ELSE 0

(* The match of r'\[(\w+):(\d+)\]' that starts at position i, or NoMatch.
   ':' is no word character and ']' no digit, so only the maximal runs can
   be followed by them: backtracking finds nothing else. *)
NoMatch == [found |-> FALSE, last |-> 0, digits |-> <<>>]

MentionMatchAt(s, i) ==
    IF i > Len(s) \/ s[i] # "[" THEN NoMatch
    ELSE LET w == WordRun(s, i + 1)
             colon == i + 1 + w
         IN  IF w = 0 \/ colon > Len(s) \/ s[colon] # ":" THEN NoMatch
             ELSE LET d == DigitRun(s, colon + 1)
                      close == colon + 1 + d
                  IN  IF d = 0 \/ close > Len(s) \/ s[close] # "]" THEN NoMatch
                      ELSE [found |-> TRUE, last |-> close,
                            digits |-> SubSeq(s, colon + 1, close - 1)]

(* replacer without int(): group(2), a str, is never a key of the map *)
replacer_string_key(digits, entity_map) ==
    <<"*", "*", "E", "n", "t", "i", "t", "y", "_">> \o digits \o <<"*", "*">>

(* replace_mentions.replacer: the replacement of one matched token *)
replacer(digits, entity_map) ==
    LET entity_id == IntOf(digits)
    IN  IF entity_id \in DOMAIN entity_map
        THEN <<"[">> \o entity_map[entity_id].name \o <<"]", "(", "#">>
             \o create_anchor_label(entity_map[entity_id].name) \o <<")">>
        ELSE <<"*", "*", "E", "n", "t", "i", "t", "y", "_">>
             \o StrOf(entity_id) \o <<"*", "*">>

(* re.sub: leftmost matches, left to right, never rescanning a replacement *)
RECURSIVE SubMentionsFrom(_, _, _)
SubMentionsFrom(s, i, entity_map) ==
    IF i > Len(s) THEN <<>>
    ELSE LET m == MentionMatchAt(s, i)
         IN  IF m.found
             THEN replacer(m.digits, entity_map)
                  \o SubMentionsFrom(s, m.last + 1, entity_map)
             ELSE <<s[i]>> \o SubMentionsFrom(s, i + 1, entity_map)

replace_mentions(s, entity_map) == SubMentionsFrom(s, 1, entity_map)

----------------------------------------------------------------------------
(* Entity records.  A record is a dict with an optional nested envelope
   ('entity'); the fields of the envelope are prefixed e_.  typed_parent_id
   stands for the field named after the record's own type (journal_id,
   quest_id, note_id, family_id, organisation_id, item_id, calendar_id,
   timeline_id, map_id, tag_id): a record of the model holds at most that
   one of them.  The envelope id of a loaded record is its position in the
   list, so envelope ids are unique (the data model's invariant); type-local
   ids (id) may repeat across the types. *)

DefaultEntry ==
    [ has_entity |-> TRUE, e_id |-> 0, e_type |-> "ABSENT", e_type_id |-> Absent,
      e_name |-> AbsentStr, e_is_private |-> Absent, e_parent_id |-> Absent,
      e_entry |-> AbsentStr,
      id |-> Absent, name |-> AbsentStr, is_private |-> Absent,
      entry |-> AbsentStr, location_id |-> Absent, race_id |-> Absent,
      typed_parent_id |-> Absent, parent_id |-> Absent,
      pivotMembers |-> <<>>, members |-> <<>>, e_posts |-> <<>> ]

----------------------------------------------------------------------------
(* entity_processing.py *)

UnknownName == <<"U", "n", "k", "n", "o", "w", "n">>

(* entry.get('name', entity.get('name', 'Unknown')): an empty top-level
   name is kept *)
entity_map_entry_get_default(entry) ==
    [ name |-> IF entry.name # AbsentStr THEN entry.name
               ELSE IF entry.e_name = AbsentStr THEN UnknownName
               ELSE entry.e_name,
      type |-> IF entry.e_type = "ABSENT" THEN "Unknown" ELSE entry.e_type ]

(* the map entry build_entity_map stores for one record *)
entity_map_entry(entry) ==
    [ name |-> IF TruthyStr(entry.name) THEN entry.name
               ELSE IF entry.e_name = AbsentStr THEN UnknownName
               ELSE entry.e_name,
      type |-> IF entry.e_type = "ABSENT" THEN "Unknown" ELSE entry.e_type ]

RECURSIVE build_entity_map(_)
build_entity_map(es) ==
    IF es = <<>> THEN <<>>
    ELSE LET rest == build_entity_map(SubSeq(es, 1, Len(es) - 1))
             entry == es[Len(es)]
         IN  IF entry.has_entity
             THEN [k \in DOMAIN rest \cup {entry.e_id} |->
                      IF k = entry.e_id THEN entity_map_entry(entry) ELSE rest[k]]
             ELSE rest

CHARACTER_TYPE_IDS == {1}
LOCATION_TYPE_IDS == {3, 7}
EVENT_TYPE_IDS == {10, 12, 18}
ORGANIZATION_TYPE_IDS == {4}
ITEM_TYPE_IDS == {5}
FAMILY_TYPE_IDS == {2}
NOTE_TYPE_IDS == {6}
RACE_TYPE_IDS == {9}

(* a list comprehension that keeps the records in the opposite order *)
filter_entities_by_type_reversed(es, type_ids) ==
    LET kept == SelectSeq(es, LAMBDA e : e.has_entity /\ e.e_type_id \in type_ids)
    IN  [i \in 1..Len(kept) |-> kept[Len(kept) + 1 - i]]

filter_entities_by_type(es, type_ids) ==
    SelectSeq(es, LAMBDA e : e.has_entity /\ e.e_type_id \in type_ids)

(* A Python dict is the sequence of its items [k, v] in insertion order. *)
DictHas(d, k) == \E i \in 1..Len(d) : d[i].k = k
DictGet(d, k) == d[CHOOSE i \in 1..Len(d) : d[i].k = k].v
\* d[k] = v: a new key goes last, an old key keeps its place
DictPut(d, k, v) ==
    IF DictHas(d, k)
    THEN [i \in 1..Len(d) |-> IF d[i].k = k THEN [k |-> k, v |-> v] ELSE d[i]]
    ELSE Append(d, [k |-> k, v |-> v])
\* d.values()
dict_values(d) == [i \in 1..Len(d) |-> d[i].v]

(* {e['entity']['id']: e for e in entries if ...}: a dict keyed by
   envelope id *)
RECURSIVE filter_entities_by_type_dict(_, _)
filter_entities_by_type_dict(es, type_ids) ==
    IF es = <<>> THEN <<>>
    ELSE LET rest == filter_entities_by_type_dict(SubSeq(es, 1, Len(es) - 1), type_ids)
             e == es[Len(es)]
         IN  IF e.has_entity /\ e.e_type_id \in type_ids
             THEN DictPut(rest, e.e_id, e)
             ELSE rest

IsCharacterEntry(e) == e.has_entity /\ e.e_type_id = 1

(* mapping[entry['id']] raises KeyError for a character without a
   top-level id *)
character_index_raises(es) ==
    \E i \in 1..Len(es) : IsCharacterEntry(es[i]) /\ es[i].id = Absent

RECURSIVE build_character_id_to_entity_id(_)
build_character_id_to_entity_id(es) ==
    IF es = <<>> THEN <<>>
    ELSE LET rest == build_character_id_to_entity_id(SubSeq(es, 1, Len(es) - 1))
             entry == es[Len(es)]
         IN  IF IsCharacterEntry(entry)
             THEN [k \in DOMAIN rest \cup {entry.id} |->
                      IF k = entry.id THEN entry.e_id ELSE rest[k]]
             ELSE rest

----------------------------------------------------------------------------
(* main.py: process_entities.  get_type_id_sets names eight types, so the
   journals, tags, quests, maps, timelines and calendars branches never
   run and those buckets stay unset (generate_worldbook reads them with a
   default of an empty list).  The locations and charlocations buckets
   are dicts that generate_worldbook reads through values(): the model
   keeps their values. *)

NoEntities ==
    [ campaign |-> FALSE,
      locations |-> <<>>, charlocations |-> <<>>, characters |-> <<>>,
      organizations |-> <<>>, events |-> <<>>, notes |-> <<>>, items |-> <<>>,
      families |-> <<>>, races |-> <<>>, journals |-> <<>>, quests |-> <<>>,
      tags |-> <<>>, maps |-> <<>>, calendars |-> <<>>, timelines |-> <<>>,
      entity_map |-> <<>>, character_id_to_entity_id |-> <<>> ]

(* process_entities with build_entity_map applied to the public records *)
process_entities_public_map(es, has_campaign) ==
    [ NoEntities EXCEPT
        !.campaign = has_campaign,
        !.locations = dict_values(filter_entities_by_type_dict(es, LOCATION_TYPE_IDS)),
        !.charlocations = dict_values(filter_entities_by_type_dict(es, LOCATION_TYPE_IDS)),
        !.characters = filter_entities_by_type(es, CHARACTER_TYPE_IDS),
        !.organizations = filter_entities_by_type(es, ORGANIZATION_TYPE_IDS),
        !.events = filter_entities_by_type(es, EVENT_TYPE_IDS),
        !.notes = filter_entities_by_type(es, NOTE_TYPE_IDS),
        !.items = filter_entities_by_type(es, ITEM_TYPE_IDS),
        !.families = filter_entities_by_type(es, FAMILY_TYPE_IDS),
        !.races = filter_entities_by_type(es, RACE_TYPE_IDS),
        !.entity_map = build_entity_map(SelectSeq(es, LAMBDA e :
            ~(e.is_private = 1 \/ (e.has_entity /\ e.e_is_private = 1)))),
        !.character_id_to_entity_id = build_character_id_to_entity_id(es) ]

process_entities(es, has_campaign) ==
    [ NoEntities EXCEPT
        !.campaign = has_campaign,
        !.locations = dict_values(filter_entities_by_type_dict(es, LOCATION_TYPE_IDS)),
        !.charlocations = dict_values(filter_entities_by_type_dict(es, LOCATION_TYPE_IDS)),
        !.characters = filter_entities_by_type(es, CHARACTER_TYPE_IDS),
        !.organizations = filter_entities_by_type(es, ORGANIZATION_TYPE_IDS),
        !.events = filter_entities_by_type(es, EVENT_TYPE_IDS),
        !.notes = filter_entities_by_type(es, NOTE_TYPE_IDS),
        !.items = filter_entities_by_type(es, ITEM_TYPE_IDS),
        !.families = filter_entities_by_type(es, FAMILY_TYPE_IDS),
        !.races = filter_entities_by_type(es, RACE_TYPE_IDS),
        !.entity_map = build_entity_map(es),
        !.character_id_to_entity_id = build_character_id_to_entity_id(es) ]

----------------------------------------------------------------------------
(* Python built-ins the renderer uses: str comparison by code point and
   the stable sorted(). *)

\* the characters of the model in increasing code point order
CodePointOrder ==
    << "\n", " ", "!", "#", "(", ")", "*", "-", "/",
       "0", "1", "2", "3", "4", "5", "6", "7", "8", "9", ":",
       "A", "B", "C", "E", "L", "M", "O", "R", "T", "U", "[", "\\", "]", "_",
       "a", "b", "c", "d", "e", "g", "h", "i", "k", "l", "m", "n", "o",
       "r", "t", "u", "w", "y", "z", "A_acute", "a_acute", "TM_sign" >>

CharRank(c) == CHOOSE i \in 1..Len(CodePointOrder) : CodePointOrder[i] = c

\* a < b for two str values
RECURSIVE StrLess(_, _)
StrLess(a, b) ==
    IF b = <<>> THEN FALSE
    ELSE IF a = <<>> THEN TRUE
    ELSE IF Head(a) = Head(b) THEN StrLess(Tail(a), Tail(b))
    ELSE CharRank(Head(a)) < CharRank(Head(b))

\* x is put behind every element whose key is not greater than its own
RECURSIVE InsertByKey(_, _)
InsertByKey(sorted, x) ==
    IF sorted = <<>> THEN <<x>>
    ELSE IF StrLess(x.key, Head(sorted).key)
         THEN <<x>> \o sorted
         ELSE <<Head(sorted)>> \o InsertByKey(Tail(sorted), x)

RECURSIVE SortPairs(_)
SortPairs(ps) ==
    IF ps = <<>> THEN <<>>
    ELSE InsertByKey(SortPairs(SubSeq(ps, 1, Len(ps) - 1)), ps[Len(ps)])

\* a or b, for two optional strings
OrStr(a, b) == IF TruthyStr(a) THEN a ELSE b
\* d.get(key, default) of an optional string
GetStr(a, default) == IF a = AbsentStr THEN default ELSE a

----------------------------------------------------------------------------
(* worldbook_generator.py: the rendered document.  A document is the list
   of the things generate_worldbook writes, in the order it writes them;
   one item stands for the lines of one heading, detail, body or link.
     k       what the item is
     ch      the chapter it is written in
     eid     the envelope id of the record whose block it belongs to
     target  the envelope id of the record a link names (0: none)
     s       the text written (escaped name, link text, body)
     a       the anchor written
     depth   the heading depth (the count of '+' is depth + 2)
     links   the envelope ids the body's resolved mention links name
     n       the character id of an unknown member, the position of a
             post *)

NoItem ==
    [ k |-> "none", ch |-> "none", eid |-> 0, target |-> 0, s |-> <<>>,
      a |-> <<>>, depth |-> 0, links |-> {}, n |-> 0 ]

ChapterHeading(ch) == [NoItem EXCEPT !.k = "chapter", !.ch = ch]
EntityHeading(ch, e, name, depth) ==
    [NoItem EXCEPT !.k = "heading", !.ch = ch, !.eid = e.e_id,
                   !.s = md_escape(name), !.a = create_anchor_label(name),
                   !.depth = depth]
PrivateDetail(ch, e) == [NoItem EXCEPT !.k = "private", !.ch = ch, !.eid = e.e_id]
LocationDetail(ch, e, loc, loc_name) ==
    [NoItem EXCEPT !.k = "location", !.ch = ch, !.eid = e.e_id,
                   !.target = loc.e_id, !.s = md_escape(loc_name),
                   !.a = create_anchor_label(loc_name)]
TypeDetail(ch, e) == [NoItem EXCEPT !.k = "type", !.ch = ch, !.eid = e.e_id]

\* the envelope ids that the mention tokens of a text resolve to
RECURSIVE MentionLinksFrom(_, _, _)
MentionLinksFrom(s, i, entity_map) ==
    IF i > Len(s) THEN {}
    ELSE LET m == MentionMatchAt(s, i)
         IN  IF m.found
             THEN (IF IntOf(m.digits) \in DOMAIN entity_map
                   THEN {IntOf(m.digits)} ELSE {})
                  \cup MentionLinksFrom(s, m.last + 1, entity_map)
             ELSE MentionLinksFrom(s, i + 1, entity_map)

(* convert_mentions_in_html on an entry without markup: the entries of the
   model hold no HTML tag, no '&' and no run of blank lines, and then
   BeautifulSoup and the substitutions return the text as it is. *)
convert_mentions_in_html(html_text) == html_text

Body(ch, e, entry_md, raw, entity_map) ==
    [NoItem EXCEPT !.k = "body", !.ch = ch, !.eid = e.e_id, !.s = entry_md,
                   !.links = MentionLinksFrom(raw, 1, entity_map)]

(* entry_md of an entry: convert_mentions_in_html, then replace_mentions *)
EntryBody(ch, e, entry_html, entity_map) ==
    LET entry_cleaned == convert_mentions_in_html(entry_html)
    IN  Body(ch, e, replace_mentions(entry_cleaned, entity_map),
             entry_cleaned, entity_map)

MemberLink(k, ch, e, target, name) ==
    [NoItem EXCEPT !.k = k, !.ch = ch, !.eid = e.e_id, !.target = target,
                   !.s = md_escape(name), !.a = create_anchor_label(name)]
UnknownMember(ch, e, char_id) ==
    [NoItem EXCEPT !.k = "unknown_member", !.ch = ch, !.eid = e.e_id, !.n = char_id]
\* the line of a member bullet
member_bullet(it) ==
    IF it.k = "unknown_member"
    THEN <<"-", " ", "*", "*", "U", "n", "k", "n", "o", "w", "n", " ",
           "m", "e", "m", "b", "e", "r", " ">> \o StrOf(it.n) \o <<"*", "*">>
    ELSE <<"-", " ", "[">> \o it.s \o <<"]", "(", "#">> \o it.a \o <<")">>
Rule == [NoItem EXCEPT !.k = "rule"]

(* a post of an envelope: {'position', 'visibility_id', 'name', 'entry'} *)
UNNAMED_POST == <<"U", "n", "n", "a", "m", "e", "d", " ", "p", "o", "s", "t">>
PostHeading(ch, e, name, post, depth) ==
    LET post_name == GetStr(post.name, UNNAMED_POST)
    IN  [NoItem EXCEPT !.k = "post", !.ch = ch, !.eid = e.e_id,
                       !.s = md_escape(post_name),
                       !.a = create_anchor_label(name \o <<"_">> \o post_name),
                       !.depth = depth, !.n = post.position]
PostBody(ch, e, post, entity_map) ==
    LET post_entry_cleaned == convert_mentions_in_html(post.entry)
    IN  [NoItem EXCEPT !.k = "post_body", !.ch = ch, !.eid = e.e_id,
                       !.s = replace_mentions(post_entry_cleaned, entity_map),
                       !.links = MentionLinksFrom(post_entry_cleaned, 1, entity_map),
                       !.n = post.position]
GenerationSettings(inc) ==
    [NoItem EXCEPT !.k = "settings", !.n = IF inc THEN 1 ELSE 0]

----------------------------------------------------------------------------
(* worldbook_generator.py: generate_worldbook.  No gallery directory
   exists beside the module, so no image line is written. *)

\* the default names of the renderer
UNNAMED == <<"U", "n", "n", "a", "m", "e", "d">>
UNNAMED_LOCATION == <<"U", "n", "n", "a", "m", "e", "d", " ", "L", "o", "c", "a", "t", "i", "o", "n">>
UNNAMED_CHARACTER == <<"U", "n", "n", "a", "m", "e", "d", " ", "C", "h", "a", "r", "a", "c", "t", "e", "r">>
UNNAMED_RACE == <<"U", "n", "n", "a", "m", "e", "d", " ", "R", "a", "c", "e">>
UNNAMED_ORGANIZATION == <<"U", "n", "n", "a", "m", "e", "d", " ", "O", "r", "g", "a", "n", "i", "z", "a", "t", "i", "o", "n">>

is_private_obj(obj) ==
    obj.is_private = 1 \/ (obj.has_entity /\ obj.e_is_private = 1)

PublicOnly(bucket) == SelectSeq(bucket, LAMBDA o : ~is_private_obj(o))

(* the buckets after "if not include_private:" *)
privacy_filter(ents, inc) ==
    IF inc THEN ents
    ELSE [ ents EXCEPT
             !.locations = PublicOnly(@),
             !.characters = PublicOnly(@),
             !.charlocations = PublicOnly(@),
             !.organizations = PublicOnly(@),
             !.events = PublicOnly(@),
             !.items = PublicOnly(@),
             !.families = PublicOnly(@),
             !.notes = PublicOnly(@),
             !.races = PublicOnly(@) ]

(* the caller's dict after a call in which the privacy filter removes the
   private records from the caller's own collections *)
entities_filtered_in_place(ents, inc) == privacy_filter(ents, inc)

(* The caller's dict after a call.  generate_worldbook binds its local
   names to the caller's collections and the privacy filter rebinds them
   to new lists and dicts built by comprehensions; the trees hold the
   records in node objects of their own, the indexes are new dicts, and no
   statement assigns to, appends to, sorts or deletes from an object
   reached through the argument. *)
entities_after_call(ents, inc) == ents

\* the types whose parent field is named after the type itself
TypedParentTypes ==
    { "journal", "quest", "note", "family", "organisation", "item",
      "calendar", "timeline", "map", "tag" }

(* TreeNode.parent_id; the type strings of the model are lower case *)
node_parent_id(e) ==
    CASE e.e_type = "location" -> e.location_id
      [] e.e_type = "race" -> e.race_id
      [] e.e_type \in TypedParentTypes -> e.typed_parent_id
      [] OTHER -> IF TruthyInt(e.parent_id) THEN e.parent_id ELSE e.e_parent_id

(* TreeNode.entity_id *)
node_id(e) == IF TruthyInt(e.id) THEN e.id ELSE e.e_id

(* TreeNode.get_name *)
get_name(e) == OrStr(e.name, GetStr(e.e_name, UNNAMED))

\* the nodes in the order of their list
unsorted_nodes(nodes) == nodes

\* sorted(nodes, key=lambda n: n.get_name()): stable
sorted_by_get_name(nodes) ==
    LET ps == SortPairs([i \in 1..Len(nodes) |->
                            [key |-> get_name(nodes[i].v), val |-> nodes[i]]])
    IN  [i \in 1..Len(nodes) |-> ps[i].val]

(* the nodes dict of build_entity_tree *)
RECURSIVE tree_nodes(_)
tree_nodes(entities_list) ==
    IF entities_list = <<>> THEN <<>>
    ELSE DictPut(tree_nodes(SubSeq(entities_list, 1, Len(entities_list) - 1)),
                 node_id(entities_list[Len(entities_list)]),
                 entities_list[Len(entities_list)])

\* a loop that attaches no node to any other
has_parent_node_never(nodes, e) == FALSE

(* "if node.parent_id and node.parent_id in nodes" *)
has_parent_node(nodes, e) ==
    TruthyInt(node_parent_id(e)) /\ DictHas(nodes, node_parent_id(e))

(* add_child in the loop over the nodes, in the order of the dict:
   "child_node.depth = self.depth + 1" with the depth the parent has at
   that moment.  parents[i] is the key of the node that nodes[i] is
   attached to, or Absent; depth maps a key to the stored depth. *)
RECURSIVE add_child_depths(_, _, _, _)
add_child_depths(nodes, parents, i, depth) ==
    IF i > Len(nodes) THEN depth
    ELSE add_child_depths(nodes, parents, i + 1,
             IF parents[i] = Absent THEN depth
             ELSE [depth EXCEPT ![nodes[i].k] = depth[parents[i]] + 1])

(* build_entity_tree: the root nodes and every node's children list, in the
   order the loop over nodes.values() appends them, and the depth stored
   in every node *)
build_entity_tree(entities_list) ==
    LET nodes == tree_nodes(entities_list)
    IN  [ nodes |-> nodes,
          depth |-> add_child_depths(nodes,
                        [ i \in 1..Len(nodes) |->
                            IF has_parent_node(nodes, nodes[i].v)
                            THEN node_parent_id(nodes[i].v) ELSE Absent ],
                        1, [ k \in {nodes[i].k : i \in 1..Len(nodes)} |-> 0 ]),
          root_nodes |-> SelectSeq(nodes, LAMBDA nd : ~has_parent_node(nodes, nd.v)),
          children |->
            [ k \in {nodes[i].k : i \in 1..Len(nodes)} |->
                SelectSeq(nodes, LAMBDA nd :
                    has_parent_node(nodes, nd.v) /\ node_parent_id(nd.v) = k) ] ]

MaxDepthGeneric == 5
MaxDepthLocation == 10

(* the family-members list with entity_map read at the character id *)
pivot_member_items_by_char_id(ch, e, cx) ==
    [ i \in 1..Len(e.pivotMembers) |->
        LET char_id == e.pivotMembers[i]
        IN  IF char_id \in DOMAIN cx.entity_map
            THEN MemberLink("family_member", ch, e, char_id,
                            cx.entity_map[char_id].name)
            ELSE UnknownMember(ch, e, char_id) ]

(* the family-members list of write_hierarchical_entity *)
pivot_member_items(ch, e, cx) ==
    [ i \in 1..Len(e.pivotMembers) |->
        LET char_id == e.pivotMembers[i]
            known == /\ char_id \in DOMAIN cx.character_id_to_entity_id
                     /\ cx.character_id_to_entity_id[char_id] \in DOMAIN cx.entity_map
        IN  IF known
            THEN MemberLink("family_member", ch, e,
                            cx.character_id_to_entity_id[char_id],
                            cx.entity_map[cx.character_id_to_entity_id[char_id]].name)
            ELSE UnknownMember(ch, e, char_id) ]

(* the "location" detail: the link to location_by_id[location_id] *)
location_detail_items(ch, e, cx) ==
    IF TruthyInt(e.location_id) /\ e.location_id \in DOMAIN cx.location_by_id
    THEN LET loc == cx.location_by_id[e.location_id]
             loc_name == OrStr(loc.name, loc.e_name)
         IN  IF TruthyStr(loc_name)
             THEN <<LocationDetail(ch, e, loc, loc_name)>> ELSE <<>>
    ELSE <<>>

private_detail_items(ch, e) ==
    IF is_private_obj(e) THEN <<PrivateDetail(ch, e)>> ELSE <<>>

(* sorted(posts, key=lambda p: (p.get('position', 0), p.get('created_at', ''))):
   the posts of the model carry no created_at, the sort is stable *)
RECURSIVE insert_post(_, _)
insert_post(sorted, post) ==
    IF sorted = <<>> THEN <<post>>
    ELSE IF post.position < Head(sorted).position
         THEN <<post>> \o sorted
         ELSE <<Head(sorted)>> \o insert_post(Tail(sorted), post)

RECURSIVE sorted_posts(_)
sorted_posts(posts) ==
    IF posts = <<>> THEN <<>>
    ELSE insert_post(sorted_posts(SubSeq(posts, 1, Len(posts) - 1)), posts[Len(posts)])

\* the bodies that "post_entry.strip() in ['<br>', '<br/>', '<br />', '']" skips
MinimalBodies ==
    { <<"<", "b", "r", ">">>, <<"<", "b", "r", "/", ">">>,
      <<"<", "b", "r", " ", "/", ">">>, <<>> }

(* the posts of an entity, written by write_hierarchical_entity and by the
   characters chapter; depth is the depth of the post's heading *)
post_items(ch, e, name, depth, cx) ==
    IF e.e_posts # <<>> /\ cx.include_posts
    THEN Concat([ i \in 1..Len(e.e_posts) |->
           LET post == sorted_posts(e.e_posts)[i]
               visibility_id == IF post.visibility_id = Absent THEN 1
                                ELSE post.visibility_id
               post_entry == GetStr(post.entry, EmptyStr)
           IN  IF ~cx.include_private /\ visibility_id # 1 THEN <<>>
               ELSE IF ~TruthyStr(post_entry) \/ Strip(post_entry) \in MinimalBodies
                    THEN <<>>
                    ELSE << PostHeading(ch, e, name, post, depth),
                            PostBody(ch, e, [post EXCEPT !.entry = post_entry],
                                     cx.entity_map),
                            Rule >> ])
    ELSE <<>>

write_hierarchical_entity(ch, e, depth, cx) ==
    IF depth > MaxDepthGeneric THEN <<>>
    ELSE <<EntityHeading(ch, e, OrStr(e.name, GetStr(e.e_name, UNNAMED)), depth)>>
         \o private_detail_items(ch, e)
         \o location_detail_items(ch, e, cx)
         \o (IF e.e_type # "ABSENT" THEN <<TypeDetail(ch, e)>> ELSE <<>>)
         \o <<EntryBody(ch, e, OrStr(e.entry, OrStr(e.e_entry, <<>>)), cx.entity_map)>>
         \o pivot_member_items(ch, e, cx)
         \o post_items(ch, e, OrStr(e.name, GetStr(e.e_name, UNNAMED)), depth + 1, cx)
         \o <<Rule>>

RECURSIVE traverse_and_write(_, _, _, _, _)
RECURSIVE traverse_children(_, _, _, _, _)

(* traverse_and_write that stops one level early *)
traverse_and_write_one_less(ch, node, depth, tree, cx) ==
    IF depth >= MaxDepthGeneric THEN <<>>
    ELSE write_hierarchical_entity(ch, node.v, depth, cx)
         \o traverse_children(ch,
                sorted_by_get_name(tree.children[node.k]),
                depth + 1, tree, cx)

traverse_and_write(ch, node, depth, tree, cx) ==
    IF depth > MaxDepthGeneric THEN <<>>
    ELSE write_hierarchical_entity(ch, node.v, depth, cx)
         \o traverse_children(ch,
                sorted_by_get_name(tree.children[node.k]),
                depth + 1, tree, cx)

traverse_children(ch, nodes, depth, tree, cx) ==
    IF nodes = <<>> THEN <<>>
    ELSE traverse_and_write(ch, Head(nodes), depth, tree, cx)
         \o traverse_children(ch, Tail(nodes), depth, tree, cx)

(* write_hierarchical_section, under its caller's "if <bucket>:" *)
write_hierarchical_section(ch, entities_list, cx) ==
    IF entities_list = <<>> THEN <<>>
    ELSE LET tree == build_entity_tree(entities_list)
         IN  <<ChapterHeading(ch)>>
             \o traverse_children(ch,
                    sorted_by_get_name(tree.root_nodes),
                    0, tree, cx)

(* location_by_id / charlocations_by_id index loc['id']: KeyError for a
   location without a top-level id *)
location_index_raises(locations) ==
    \E i \in 1..Len(locations) : locations[i].id = Absent

RECURSIVE location_by_id_of(_)
location_by_id_of(locations) ==
    IF locations = <<>> THEN <<>>
    ELSE LET rest == location_by_id_of(SubSeq(locations, 1, Len(locations) - 1))
             loc == locations[Len(locations)]
         IN  [k \in DOMAIN rest \cup {loc.id} |-> IF k = loc.id THEN loc ELSE rest[k]]

(* location_nodes *)
RECURSIVE location_nodes_of(_)
location_nodes_of(locations) ==
    IF locations = <<>> THEN <<>>
    ELSE DictPut(location_nodes_of(SubSeq(locations, 1, Len(locations) - 1)),
                 locations[Len(locations)].id, locations[Len(locations)])

(* "if parent_loc_id and parent_loc_id in location_nodes" *)
has_parent_location(nodes, loc) ==
    TruthyInt(loc.location_id) /\ DictHas(nodes, loc.location_id)

(* the location tree: root_nodes, and the children lists that process_node
   copies into loc_children *)
location_tree(locations) ==
    LET nodes == location_nodes_of(locations)
    IN  [ nodes |-> nodes,
          depth |-> add_child_depths(nodes,
                        [ i \in 1..Len(nodes) |->
                            IF has_parent_location(nodes, nodes[i].v)
                            THEN nodes[i].v.location_id ELSE Absent ],
                        1, [ k \in {nodes[i].k : i \in 1..Len(nodes)} |-> 0 ]),
          root_nodes |-> SelectSeq(nodes, LAMBDA nd : ~has_parent_location(nodes, nd.v)),
          children |->
            [ k \in {nodes[i].k : i \in 1..Len(nodes)} |->
                SelectSeq(nodes, LAMBDA nd :
                    has_parent_location(nodes, nd.v) /\ nd.v.location_id = k) ] ]

(* chars_by_location[e]: the characters whose location_id is the id of the
   location with envelope id e *)
chars_by_location_of(characters, location_by_id, e_id) ==
    SelectSeq(characters, LAMBDA c :
        /\ TruthyInt(c.location_id)
        /\ c.location_id \in DOMAIN location_by_id
        /\ location_by_id[c.location_id].e_id = e_id)

(* the sort key "x.get('name') or x['entity'].get('name', '')" *)
name_key(e) == OrStr(e.name, GetStr(e.e_name, <<>>))

\* sorted(seq, key=name_key): stable
sorted_by_name(seq) ==
    LET ps == SortPairs([i \in 1..Len(seq) |-> [key |-> name_key(seq[i]), val |-> seq[i]]])
    IN  [i \in 1..Len(seq) |-> ps[i].val]

RECURSIVE write_location(_, _, _, _)
RECURSIVE write_locations(_, _, _, _)

write_location(loc, depth, tree, cx) ==
    IF depth > MaxDepthLocation THEN <<>>
    ELSE LET loc_name == OrStr(loc.name, GetStr(loc.e_name, UNNAMED_LOCATION))
             body == EntryBody("locations", loc,
                               OrStr(loc.entry, OrStr(loc.e_entry, <<>>)),
                               cx.entity_map)
             chars_here == chars_by_location_of(cx.characters, cx.location_by_id,
                                                loc.e_id)
         IN  <<EntityHeading("locations", loc, loc_name, depth)>>
             \o private_detail_items("locations", loc)
             \o (IF Strip(body.s) # <<>> THEN <<body>> ELSE <<>>)
             \o [ i \in 1..Len(chars_here) |->
                    LET c == sorted_by_name(chars_here)[i]
                    IN  MemberLink("character_at_location", "locations", loc, c.e_id,
                                   OrStr(c.name, GetStr(c.e_name, UNNAMED_CHARACTER))) ]
             \o write_locations(
                    sorted_by_name([i \in 1..Len(tree.children[loc.id]) |->
                               tree.children[loc.id][i].v]),
                    depth + 1, tree, cx)

write_locations(locs, depth, tree, cx) ==
    IF locs = <<>> THEN <<>>
    ELSE write_location(Head(locs), depth, tree, cx)
         \o write_locations(Tail(locs), depth, tree, cx)

(* race_children[parent_id] *)
race_children_of(races, parent_id) ==
    SelectSeq(races, LAMBDA r : TruthyInt(r.race_id) /\ r.race_id = parent_id)

root_races_of(races) == SelectSeq(races, LAMBDA r : ~TruthyInt(r.race_id))

KeyError == [NoItem EXCEPT !.k = "KeyError"]

RECURSIVE write_race(_, _, _, _)
RECURSIVE write_races(_, _, _, _)

(* race['id'] in the loop over the children raises KeyError for a race
   without a top-level id *)
write_race(race, depth, races, cx) ==
    IF depth > MaxDepthLocation THEN <<>>
    ELSE LET race_name == OrStr(race.name, GetStr(race.e_name, UNNAMED_RACE))
             body == EntryBody("races", race,
                               OrStr(race.entry, OrStr(race.e_entry, <<>>)),
                               cx.entity_map)
         IN  <<EntityHeading("races", race, race_name, depth)>>
             \o private_detail_items("races", race)
             \o (IF Strip(body.s) # <<>> THEN <<body>> ELSE <<>>)
             \o (IF race.id = Absent THEN <<KeyError>>
                 ELSE write_races(sorted_by_name(race_children_of(races, race.id)),
                                  depth + 1, races, cx))

write_races(rs, depth, races, cx) ==
    IF rs = <<>> THEN <<>>
    ELSE write_race(Head(rs), depth, races, cx)
         \o write_races(Tail(rs), depth, races, cx)

generate_organizations(organizations, cx) ==
    <<ChapterHeading("organizations")>>
    \o Concat([ i \in 1..Len(organizations) |->
         LET org == sorted_by_name(organizations)[i]
             org_name == OrStr(org.name, GetStr(org.e_name, UNNAMED_ORGANIZATION))
         IN  <<EntityHeading("organizations", org, org_name, 0)>>
             \o private_detail_items("organizations", org)
             \o (IF TruthyStr(org.e_entry)
                 THEN <<Body("organizations", org,
                             replace_mentions(org.e_entry, cx.entity_map),
                             org.e_entry, cx.entity_map)>>
                 ELSE <<>>)
             \o [ j \in 1..Len(org.members) |->
                    LET char_id == org.members[j]
                        known == /\ char_id \in DOMAIN cx.character_id_to_entity_id
                                 /\ cx.character_id_to_entity_id[char_id]
                                      \in DOMAIN cx.entity_map
                    IN  IF known
                        THEN MemberLink("organization_member", "organizations", org,
                                 cx.character_id_to_entity_id[char_id],
                                 cx.entity_map[cx.character_id_to_entity_id[char_id]].name)
                        ELSE UnknownMember("organizations", org, char_id) ] ])

(* the characters chapter: one block per element of chars_without_location,
   which is the characters list itself *)
characters_chapter(chars_without_location, cx) ==
    IF chars_without_location = <<>> THEN <<>>
    ELSE <<ChapterHeading("characters")>>
         \o Concat([ i \in 1..Len(chars_without_location) |->
              LET c == sorted_by_name(chars_without_location)[i]
                  c_name == OrStr(c.name, GetStr(c.e_name, UNNAMED_CHARACTER))
              IN  <<EntityHeading("characters", c, c_name, 0)>>
                  \o private_detail_items("characters", c)
                  \o location_detail_items("characters", c, cx)
                  \o <<EntryBody("characters", c, OrStr(c.entry, <<>>), cx.entity_map)>>
                  \o post_items("characters", c, c_name, 1, cx)
                  \o <<Rule>> ])

campaign_chapter(campaign) ==
    IF campaign THEN <<ChapterHeading("campaign"), Rule>> ELSE <<>>

\* the order with the races chapter written before the families chapter
chapter_sequence_races_first ==
    << "campaign", "locations", "characters", "events", "organizations", "notes",
       "items", "races", "families", "journals", "quests", "tags", "maps",
       "calendars", "timelines" >>

\* the chapters in the order generate_worldbook writes them
chapter_sequence ==
    << "campaign", "locations", "characters", "events", "organizations", "notes",
       "items", "families", "races", "journals", "quests", "tags", "maps",
       "calendars", "timelines" >>

\* the lines one chapter adds to output_lines
chapter_lines(ch, ents, f, cx) ==
    CASE ch = "campaign" -> campaign_chapter(ents.campaign)
      [] ch = "locations" ->
           LET tree == location_tree(f.locations)
           IN  <<ChapterHeading("locations")>>
               \o write_locations(
                      sorted_by_name([i \in 1..Len(tree.root_nodes) |->
                                         tree.root_nodes[i].v]),
                      0, tree, cx)
      [] ch = "characters" -> characters_chapter(f.characters, cx)
      [] ch = "organizations" -> generate_organizations(f.organizations, cx)
      [] ch = "races" ->
           <<ChapterHeading("races")>>
           \o write_races(sorted_by_name(root_races_of(f.races)), 0, f.races, cx)
      [] OTHER -> write_hierarchical_section(ch, f[ch], cx)

(* the list output_lines at the end of generate_worldbook *)
output_lines_of(ents, inc, inc_posts) ==
    LET f == privacy_filter(ents, inc)
        cx == [ entity_map |-> ents.entity_map,
                character_id_to_entity_id |-> ents.character_id_to_entity_id,
                location_by_id |-> location_by_id_of(f.locations),
                characters |-> f.characters,
                include_private |-> inc, include_posts |-> inc_posts ]
    IN  Concat([ i \in 1..Len(chapter_sequence) |->
                   chapter_lines(chapter_sequence[i], ents, f, cx) ])
        \o <<Rule, GenerationSettings(inc)>>

(* generate_worldbook: the document, or the exception that leaves it *)
generate_worldbook(ents, inc, inc_posts) ==
    LET f == privacy_filter(ents, inc)
    IN  IF location_index_raises(f.locations) \/ location_index_raises(f.charlocations)
        THEN [status |-> "raised", doc |-> <<>>]
        ELSE LET output_lines == output_lines_of(ents, inc, inc_posts)
             IN  IF \E i \in 1..Len(output_lines) : output_lines[i] = KeyError
                 THEN [status |-> "raised", doc |-> <<>>]
                 ELSE [status |-> "returned", doc |-> output_lines]

----------------------------------------------------------------------------
(* worldbook_generator.py: paginate_and_columnize.  A line and a page
   string are strings: tuples of characters, "\n" the newline. *)

(* the chunks of lines_per_page lines, the last one shorter *)
RECURSIVE split_pages(_, _)
split_pages(ls, n) ==
    IF ls = <<>> THEN <<>>
    ELSE IF Len(ls) <= n THEN <<ls>>
    ELSE <<SubSeq(ls, 1, n)>> \o split_pages(SubSeq(ls, n + 1, Len(ls)), n)

(* "while col and col[-1].strip() == '': col.pop()" *)
RECURSIVE pop_trailing_blank(_)
pop_trailing_blank(col) ==
    IF col # <<>> /\ Strip(col[Len(col)]) = <<>>
    THEN pop_trailing_blank(SubSeq(col, 1, Len(col) - 1))
    ELSE col

(* '\n'.join(col) *)
RECURSIVE join_lines(_)
join_lines(col) ==
    IF col = <<>> THEN <<>>
    ELSE IF Len(col) = 1 THEN col[1]
    ELSE col[1] \o <<"\n">> \o join_lines(Tail(col))

(* page[:k] and page[k:] *)
Take(page, k) == SubSeq(page, 1, IF k < Len(page) THEN k ELSE Len(page))
Drop(page, k) == SubSeq(page, (IF k < Len(page) THEN k ELSE Len(page)) + 1, Len(page))

\* the column break after the first line of the page, whatever n
columnize_after_first(page, n) ==
    LET col1 == pop_trailing_blank(Take(page, 1))
        col2 == pop_trailing_blank(Drop(page, 1))
    IN  join_lines(col1) \o <<"\n", "/", "\n">> \o join_lines(col2)

columnize(page, n) ==
    LET col_break == n \div 2
        col1 == pop_trailing_blank(Take(page, col_break))
        col2 == pop_trailing_blank(Drop(page, col_break))
    IN  join_lines(col1) \o <<"\n", "/", "\n">> \o join_lines(col2)

paginate_and_columnize(ls, n) ==
    LET ps == split_pages(ls, n)
    IN  [i \in 1..Len(ps) |-> columnize(ps[i], n)]

----------------------------------------------------------------------------
(* The mention normalizer on its own: a text is typed character by
   character, then replace_mentions is applied to it. *)

MentionAlphabet == {"[", "]", ":", "a", "0", "1"}

\* the identity maps tried: empty, and one that knows entity 1
MentionMaps ==
    { <<>>, (1 :> [name |-> SampleName, type |-> "note"]) }

TypeChar(c) ==
    /\ pc = "start"
    /\ ~replaced.done
    /\ Len(text) < MaxTextLen
    /\ text' = Append(text, c)
    /\ UNCHANGED <<pc, entries, entities, include_private, worldbook,
                   text_map, replaced, lines, lines_per_page, pages, anchor, anchor_name, include_posts, config_file, config, fetch, drive, auth, run, sync>>

ReplaceMentions ==
    /\ pc = "start"
    /\ ~replaced.done
    /\ \E m \in MentionMaps :
          /\ text_map' = m
          /\ replaced' = [done |-> TRUE, out |-> replace_mentions(text, m)]
    /\ UNCHANGED <<pc, entries, entities, include_private, worldbook,
                   text, lines, lines_per_page, pages, anchor, anchor_name, include_posts, config_file, config, fetch, drive, auth, run, sync>>

----------------------------------------------------------------------------
(* The records the runs load.  Each specification draws its records from a
   family of its own, which varies the fields its claims are about and
   leaves the others at their defaults. *)

MaxPrivacyEntries == 2   \* records loaded in a run of SpecPrivacy
MaxMemberEntries == 2
MaxChapterEntries == 2
MaxChainEntries == 12
MaxPostEntries == 2
MaxOrderEntries == 3
MaxFilterEntries == 3
MaxTreeEntries == 3      \* records loaded in a run of SpecTree
MaxNamedEntries == 3     \* records loaded in a run of SpecIdentity

\* the name of the record loaded at position n
PositionNames == << <<"A">>, <<"B">>, <<"C">>, <<"E">>, <<"L">> >>

\* the entry text "[c:n]": a mention of the entity with envelope id n
MentionOf(n) == <<"[", "c", ":">> \o StrOf(n) \o <<"]">>

\* an envelope type and a type id that goes with it
Kind(e_type, e_type_id) == [DefaultEntry EXCEPT !.e_type = e_type, !.e_type_id = e_type_id]

LOCATION == Kind("location", 3)
CHARACTER == Kind("character", 1)
FAMILY == Kind("family", 2)
ORGANISATION == Kind("organisation", 4)
RACE == Kind("race", 9)
EVENT == Kind("event", 10)
JOURNAL == Kind("journal", 11)
NOTE == Kind("note", 6)
ITEM == Kind("item", 5)
\* types with a type id outside the sets of get_type_id_sets
QUEST == Kind("quest", 13)
TAG == Kind("tag", 14)
MAP == Kind("map", 15)
CALENDAR == Kind("calendar", 16)
TIMELINE == Kind("timeline", 17)
\* a second type that process_entities puts into the locations bucket
LOCATION7 == Kind("location", 7)

(* Type-local ids are unique within one type: no loaded record of the same
   type id has the top-level id of e. *)
FreshId(e) ==
    \A i \in 1..Len(entries) :
        (entries[i].e_type_id = e.e_type_id /\ e.id # Absent) => entries[i].id # e.id

(* Records for the privacy claims.  A private record is private by its own
   flag or by its envelope's.  A public record has no reference, a mention
   of entity 1 in its entry, or a reference to id 1 (a character's or a
   location's location_id, a family's or an organisation's member, a
   journal's parent).  The top-level id is the position. *)
PrivacyEntries(n) ==
    { [ k EXCEPT
          !.id = n, !.name = PositionNames[n],
          !.is_private = IF v = "own" THEN 1 ELSE 0,
          !.e_is_private = IF v = "envelope" THEN 1 ELSE Absent,
          !.entry = IF v = "mention" /\ k.e_type # "organisation"
                    THEN MentionOf(1) ELSE AbsentStr,
          !.e_entry = IF v = "mention" /\ k.e_type = "organisation"
                      THEN MentionOf(1) ELSE AbsentStr,
          !.location_id = IF v = "ref" /\ k.e_type \in {"character", "location"}
                          THEN 1 ELSE Absent,
          !.pivotMembers = IF v = "ref" /\ k.e_type = "family" THEN <<1>> ELSE <<>>,
          !.members = IF v = "ref" /\ k.e_type = "organisation" THEN <<1>> ELSE <<>>,
          !.typed_parent_id = IF v = "ref" /\ k.e_type = "journal" THEN 1 ELSE Absent ] :
        k \in {LOCATION, CHARACTER, FAMILY, ORGANISATION, JOURNAL},
        v \in {"own", "envelope", "public", "mention", "ref"} }

(* Records for the hierarchy claims: locations of the two location types,
   races and events with a top-level id that is absent or 1..MaxId and a
   parent reference that is absent or 1..MaxId, and characters (their id
   is the position) with a location_id that is absent or 1..MaxId. *)
TreeEntries(n) ==
    { [ k EXCEPT
          !.name = PositionNames[n], !.id = id,
          !.location_id = IF k.e_type = "location" THEN ref ELSE Absent,
          !.race_id = IF k.e_type = "race" THEN ref ELSE Absent,
          !.parent_id = IF k.e_type = "event" THEN ref ELSE Absent ] :
        k \in {LOCATION, LOCATION7, RACE, EVENT},
        id \in {Absent} \cup 1..MaxId,
        ref \in {Absent} \cup 1..MaxId }
    \cup
    { [ CHARACTER EXCEPT !.name = PositionNames[n], !.id = n, !.location_id = ref ] :
        ref \in {Absent} \cup 1..MaxId }

(* Records for the chapter order: one record of any of the fourteen
   types, without references; its top-level id is its position. *)
ChapterEntries(n) ==
    { [ k EXCEPT !.id = n, !.name = PositionNames[n] ] :
        k \in { LOCATION, CHARACTER, EVENT, ORGANISATION, NOTE, ITEM, FAMILY, RACE,
                JOURNAL, QUEST, TAG, MAP, CALENDAR, TIMELINE } }

(* Records for the depth cap: the records of one run are all events, all
   locations or all races; the record at position n has the id n and is a
   root or the child of the record before it, so the list is a sequence
   of chains. *)
ChainEntries(n) ==
    { [ k EXCEPT
          !.id = n, !.name = <<"A">>,
          !.parent_id = IF k.e_type = "event" THEN ref ELSE Absent,
          !.location_id = IF k.e_type = "location" THEN ref ELSE Absent,
          !.race_id = IF k.e_type = "race" THEN ref ELSE Absent ] :
        k \in IF n = 1 THEN {EVENT, LOCATION, RACE}
              ELSE {Kind(entries[1].e_type, entries[1].e_type_id)},
        ref \in IF n = 1 THEN {Absent} ELSE {Absent, n - 1} }

(* Records for the order of a tree: the records of one run are all events,
   all locations or all races; the record at position n has the id n, a
   name of one letter, and a parent reference that is absent or the id of
   any position: of a record before it, of itself, of a record that
   follows or of none. *)
OrderNames == { <<"B">>, <<"a">> }
OrderEntries(n) ==
    { [ k EXCEPT
          !.id = n, !.name = nm,
          !.parent_id = IF k.e_type = "event" THEN ref ELSE Absent,
          !.location_id = IF k.e_type = "location" THEN ref ELSE Absent,
          !.race_id = IF k.e_type = "race" THEN ref ELSE Absent ] :
        k \in IF n = 1 THEN {EVENT, LOCATION, RACE}
              ELSE {Kind(entries[1].e_type, entries[1].e_type_id)},
        nm \in OrderNames,
        ref \in {Absent} \cup 1..MaxOrderEntries }

(* Records for the posts: a record of a type with its own writer, with no
   post, one post (its visibility_id absent, 1 or 2; its entry absent,
   empty, a bare line break or a text) or two posts listed against their
   positions. *)
PostName == <<"p">>
Post(position, visibility_id, entry) ==
    [ position |-> position, visibility_id |-> visibility_id,
      name |-> PostName, entry |-> entry ]
PostLists ==
    { <<>> }
    \cup { << Post(1, v, b) >> :
             v \in {Absent, 1, 2},
             b \in {AbsentStr, EmptyStr, <<"<", "b", "r", ">">>, <<"x">>} }
    \cup { << Post(2, 1, <<"x">>), Post(1, v, <<"y">>) >> : v \in {1, 2} }
PostEntries(n) ==
    { [ k EXCEPT !.id = n, !.name = PositionNames[n], !.e_posts = ps ] :
        k \in {LOCATION, CHARACTER, EVENT, ORGANISATION, FAMILY, RACE, NOTE},
        ps \in PostLists }

(* Records for the type filters: a record of any type id of
   get_type_id_sets, of a type id outside them, with an envelope that has
   no type_id, or without an envelope. *)
FilterEntries(n) ==
    { [ Kind("typed", t) EXCEPT !.id = n, !.name = PositionNames[n] ] :
        t \in {1, 2, 3, 4, 5, 6, 7, 9, 10, 12, 18, 11, Absent} }
    \cup { [ DefaultEntry EXCEPT !.has_entity = FALSE, !.id = n ] }

\* a name that md_escape changes
UnderscoreName == <<"a", "_", "b">>

(* Records for the member lists: characters with a top-level id in 1..2,
   families that list the character ids 1, 2 or both. *)
MemberEntries(n) ==
    { [ CHARACTER EXCEPT !.id = c, !.name = nm ] :
        c \in 1..2, nm \in {PositionNames[n], UnderscoreName} }
    \cup
    { [ FAMILY EXCEPT !.id = n, !.name = PositionNames[n], !.pivotMembers = ms ] :
        ms \in {<<1>>, <<2>>, <<1, 2>>} }

(* Records for the identity map: with or without an envelope, a top-level
   and an envelope name that are absent, empty or a name, an envelope type
   that is absent or a type. *)
NamedEntries(n) ==
    { [ DefaultEntry EXCEPT
          !.has_entity = TRUE, !.name = nm, !.e_name = en, !.e_type = ty ] :
        nm \in {AbsentStr, EmptyStr, PositionNames[n]},
        en \in {AbsentStr, EmptyStr, SampleName},
        ty \in {"ABSENT", "character"} }
    \cup
    { [ DefaultEntry EXCEPT !.has_entity = FALSE, !.name = nm ] :
        nm \in {AbsentStr, EmptyStr, PositionNames[n]} }

----------------------------------------------------------------------------
(* The run of main_with_config: the records are loaded, process_entities
   classifies them and builds the two maps, generate_markdown calls
   generate_worldbook. *)

NotGenerated == [status |-> "none", doc |-> <<>>, forest |-> <<>>]

(* the record e is the next one of the loaded list; its envelope id is its
   position *)
LoadEntry(e) ==
    /\ pc = "start"
    /\ FreshId(e)
    /\ entries' = Append(entries, [e EXCEPT !.e_id = Len(entries) + 1])
    /\ UNCHANGED <<pc, entities, include_private, worldbook,
                   text, text_map, replaced, lines, lines_per_page, pages, anchor, anchor_name, include_posts, config_file, config, fetch, drive, auth, run, sync>>

(* process_entities; a character without a top-level id makes
   build_character_id_to_entity_id raise KeyError and ends the run *)
ProcessEntities(has_campaign) ==
    /\ pc = "start"
    /\ IF character_index_raises(entries)
       THEN /\ pc' = "raised"
            /\ UNCHANGED entities
       ELSE /\ pc' = "processed"
            /\ entities' = process_entities(entries, has_campaign)
    /\ UNCHANGED <<entries, include_private, worldbook,
                   text, text_map, replaced, lines, lines_per_page, pages, anchor, anchor_name, include_posts, config_file, config, fetch, drive, auth, run, sync>>

(* entities.get(<bucket>, []) for the six buckets process_entities never
   sets: a caller of generate_worldbook that fills them, each with the
   records whose envelope type is the bucket's *)
with_extra_buckets(ents, es) ==
    [ ents EXCEPT
        !.journals = SelectSeq(es, LAMBDA e : e.has_entity /\ e.e_type = "journal"),
        !.quests = SelectSeq(es, LAMBDA e : e.has_entity /\ e.e_type = "quest"),
        !.tags = SelectSeq(es, LAMBDA e : e.has_entity /\ e.e_type = "tag"),
        !.maps = SelectSeq(es, LAMBDA e : e.has_entity /\ e.e_type = "map"),
        !.calendars = SelectSeq(es, LAMBDA e : e.has_entity /\ e.e_type = "calendar"),
        !.timelines = SelectSeq(es, LAMBDA e : e.has_entity /\ e.e_type = "timeline") ]

HasExtraBuckets(es) ==
    \E i \in 1..Len(es) :
        es[i].has_entity
        /\ es[i].e_type \in {"journal", "quest", "tag", "map", "calendar", "timeline"}

PassExtraBuckets ==
    /\ pc = "processed"
    /\ HasExtraBuckets(entries)
    /\ entities.journals = <<>> /\ entities.quests = <<>> /\ entities.tags = <<>>
    /\ entities.maps = <<>> /\ entities.calendars = <<>> /\ entities.timelines = <<>>
    /\ entities' = with_extra_buckets(entities, entries)
    /\ UNCHANGED <<pc, entries, include_private, worldbook,
                   text, text_map, replaced, lines, lines_per_page, pages, anchor, anchor_name, include_posts, config_file, config, fetch, drive, auth, run, sync>>

(* entities.get('entity_map', {}): a caller of generate_worldbook whose
   identity map lacks the entity e *)
PassEntityMapWithout(e) ==
    /\ pc = "processed"
    /\ e \in DOMAIN entities.entity_map
    /\ entities' = [entities EXCEPT
                      !.entity_map = [k \in DOMAIN @ \ {e} |-> @[k]]]
    /\ UNCHANGED <<pc, entries, include_private, worldbook,
                   text, text_map, replaced, lines, lines_per_page, pages,
                   anchor, anchor_name, include_posts, config_file, config, fetch, drive, auth, run, sync>>

(* main_with_config reads include_posts from the configuration before it
   loads the entities *)
ConfigIncludePosts(b) ==
    /\ pc = "start"
    /\ entries = <<>>
    /\ include_posts' = b
    /\ UNCHANGED <<pc, entries, entities, include_private, worldbook,
                   text, text_map, replaced, lines, lines_per_page, pages,
                   anchor, anchor_name, config_file, config, fetch, drive, auth, run, sync>>

GenericChapters ==
    { "events", "notes", "items", "families", "journals", "quests", "tags",
      "maps", "calendars", "timelines" }

(* the trees generate_worldbook builds on its way *)
forest_of(ents, inc) ==
    LET f == privacy_filter(ents, inc)
    IN  [ ch \in GenericChapters \cup {"locations"} |->
            IF ch = "locations" THEN location_tree(f.locations)
            ELSE build_entity_tree(f[ch]) ]

GenerateWorldbook(inc) ==
    /\ pc = "processed"
    /\ include_private' = inc
    /\ LET out == generate_worldbook(entities, inc, include_posts)
       IN  worldbook' = [ status |-> out.status, doc |-> out.doc,
                          forest |-> IF out.status = "raised" THEN <<>>
                                     ELSE forest_of(entities, inc) ]
    /\ entities' = entities_after_call(entities, inc)
    /\ pc' = "generated"
    /\ UNCHANGED <<entries,
                   text, text_map, replaced, lines, lines_per_page, pages, anchor, anchor_name, include_posts, config_file, config, fetch, drive, auth, run, sync>>

----------------------------------------------------------------------------
(* io_utils.py: load_config.  The file at config_path is missing, or it
   exists and open() succeeds or raises; its text is the sequence of its
   JSON tokens: the punctuation, the literals true and false and two
   string literals.  A JSON value is [t, items]: t is "true", "false",
   the text of a string, or "dict" with the items [k, v] of the object. *)

MaxConfigLen == 5

JsonStrings == {"include_private", "language"}
JsonTokens == {"{", "}", ":", "true", "false"} \cup JsonStrings

NoConfigFile == [exists |-> FALSE, readable |-> TRUE, text |-> <<>>]
NotLoaded == [status |-> "none", value |-> <<>>]

JsonScalar(tok) == [t |-> tok, items |-> <<>>]
JsonDict(items) == [t |-> "dict", items |-> items]
JSONDecodeError == [ok |-> FALSE, value |-> JsonScalar("false"), next |-> 0]

(* the value that starts at token i and the position behind it, or
   JSONDecodeError; an object of the model has at most one member *)
RECURSIVE parse_value(_, _)
parse_value(toks, i) ==
    IF i > Len(toks) THEN JSONDecodeError
    ELSE IF toks[i] \in {"true", "false"} \cup JsonStrings
    THEN [ok |-> TRUE, value |-> JsonScalar(toks[i]), next |-> i + 1]
    ELSE IF toks[i] # "{" THEN JSONDecodeError
    ELSE IF i + 1 <= Len(toks) /\ toks[i + 1] = "}"
    THEN [ok |-> TRUE, value |-> JsonDict(<<>>), next |-> i + 2]
    ELSE IF i + 2 <= Len(toks) /\ toks[i + 1] \in JsonStrings /\ toks[i + 2] = ":"
    THEN LET member == parse_value(toks, i + 3)
         IN  IF member.ok /\ member.next <= Len(toks) /\ toks[member.next] = "}"
             THEN [ok |-> TRUE,
                   value |-> JsonDict(<< [k |-> toks[i + 1], v |-> member.value] >>),
                   next |-> member.next + 1]
             ELSE JSONDecodeError
    ELSE JSONDecodeError

\* json.load: one value and nothing behind it
json_load(toks) ==
    LET r == parse_value(toks, 1)
    IN  IF r.ok /\ r.next = Len(toks) + 1 THEN r ELSE JSONDecodeError

default_config == << [k |-> "include_private", v |-> JsonScalar("false")] >>

\* {**a, **b}
RECURSIVE dict_merge(_, _)
dict_merge(a, b) ==
    IF b = <<>> THEN a
    ELSE dict_merge(DictPut(a, Head(b).k, Head(b).v), Tail(b))

(* load_config that returns the object of the file as it is *)
load_config_without_default(file) ==
    IF ~file.exists THEN default_config
    ELSE IF ~file.readable THEN default_config
    ELSE LET parsed == json_load(file.text)
         IN  IF ~parsed.ok THEN default_config
             ELSE IF parsed.value.t # "dict" THEN default_config
             ELSE parsed.value.items

load_config(file) ==
    IF ~file.exists THEN default_config
    ELSE IF ~file.readable THEN default_config          \* open raises: except Exception
    ELSE LET parsed == json_load(file.text)
         IN  IF ~parsed.ok THEN default_config           \* json.load raises
             ELSE IF parsed.value.t # "dict" THEN default_config
             ELSE dict_merge(default_config, parsed.value.items)

\* a file appears at config_path
CreateConfigFile(readable) ==
    /\ ~config_file.exists
    /\ config.status = "none"
    /\ config_file' = [exists |-> TRUE, readable |-> readable, text |-> <<>>]
    /\ UNCHANGED <<pc, entries, entities, include_private, worldbook,
                   text, text_map, replaced, lines, lines_per_page, pages,
                   anchor, anchor_name, include_posts, config, fetch, drive, auth, run, sync>>

\* a token is written to the file
WriteConfigToken(tok) ==
    /\ config_file.exists /\ config_file.readable
    /\ config.status = "none"
    /\ Len(config_file.text) < MaxConfigLen
    /\ config_file' = [config_file EXCEPT !.text = Append(@, tok)]
    /\ UNCHANGED <<pc, entries, entities, include_private, worldbook,
                   text, text_map, replaced, lines, lines_per_page, pages,
                   anchor, anchor_name, include_posts, config, fetch, drive, auth, run, sync>>

LoadConfig ==
    /\ config.status = "none"
    /\ config' = [status |-> "returned", value |-> load_config(config_file)]
    /\ UNCHANGED <<pc, entries, entities, include_private, worldbook,
                   text, text_map, replaced, lines, lines_per_page, pages,
                   anchor, anchor_name, include_posts, config_file, fetch, drive, auth, run, sync>>

----------------------------------------------------------------------------
(* kanka_function.py: fetch_with_retries.  A call is followed statement by
   statement: requests.get returns a response with status 200 or another
   status, or raises; time.sleep(delay) is one step.  calls records the
   GETs and the sleeps of the call in the order they happen. *)

MaxRetries == 6

GetOutcomes == {"200", "429", "exception"}

NoFetch ==
    [ pc |-> "idle", attempt |-> 0, max_retries |-> 0, calls |-> <<>>,
      result |-> "none" ]

\* "if attempt < max_retries:" before time.sleep(delay)
sleeps_after_every_attempt(attempt, max_retries) == TRUE

sleeps_after(attempt, max_retries) == attempt < max_retries

\* fetch_with_retries(url, headers, max_retries): range(1, max_retries + 1)
CallFetch(max_retries) ==
    /\ fetch.pc = "idle"
    /\ fetch' = [ fetch EXCEPT !.max_retries = max_retries, !.attempt = 1,
                                !.pc = IF 1 <= max_retries THEN "get" ELSE "failed" ]
    /\ UNCHANGED <<pc, entries, entities, include_private, worldbook,
                   text, text_map, replaced, lines, lines_per_page, pages,
                   anchor, anchor_name, include_posts, config_file, config, drive, auth, run, sync>>

(* one pass of the loop body up to the sleep: the GET, the return of a 200
   response, the warning for another status or for an exception *)
Get(outcome) ==
    /\ fetch.pc = "get"
    /\ fetch' = [ fetch EXCEPT
                    !.calls = Append(@, outcome),
                    !.result = IF outcome = "200" THEN "response" ELSE @,
                    !.pc = IF outcome = "200" THEN "returned"
                           ELSE IF sleeps_after(fetch.attempt, fetch.max_retries)
                           THEN "sleep"
                           ELSE IF fetch.attempt < fetch.max_retries THEN "get"
                           ELSE "failed",
                    !.attempt = IF outcome # "200"
                                   /\ ~sleeps_after(fetch.attempt, fetch.max_retries)
                                   /\ fetch.attempt < fetch.max_retries
                                THEN @ + 1 ELSE @ ]
    /\ UNCHANGED <<pc, entries, entities, include_private, worldbook,
                   text, text_map, replaced, lines, lines_per_page, pages,
                   anchor, anchor_name, include_posts, config_file, config, drive, auth, run, sync>>

\* time.sleep(delay), then the next value of range(1, max_retries + 1)
Sleep ==
    /\ fetch.pc = "sleep"
    /\ fetch' = [ fetch EXCEPT
                    !.calls = Append(@, "sleep"),
                    !.attempt = IF @ < fetch.max_retries THEN @ + 1 ELSE @,
                    !.pc = IF fetch.attempt < fetch.max_retries THEN "get"
                           ELSE "failed" ]
    /\ UNCHANGED <<pc, entries, entities, include_private, worldbook,
                   text, text_map, replaced, lines, lines_per_page, pages,
                   anchor, anchor_name, include_posts, config_file, config, drive, auth, run, sync>>

\* the loop is over: logger.error, return None
ReturnNone ==
    /\ fetch.pc = "failed"
    /\ fetch' = [fetch EXCEPT !.result = "None", !.pc = "returned"]
    /\ UNCHANGED <<pc, entries, entities, include_private, worldbook,
                   text, text_map, replaced, lines, lines_per_page, pages,
                   anchor, anchor_name, include_posts, config_file, config, drive, auth, run, sync>>

----------------------------------------------------------------------------
(* publish_to_drive_oauth.py: upload_or_update_file, followed call by call.
   stored is the file at FILE_ID_PATH: missing, not loadable, or holding a
   file id (Absent: the key is not there); the ids of the Drive are
   1, 2, ...; created counts the files the Drive has created.  The fields
   at_call, update and create remember the stored file at the start of
   the running call and how its update and create calls ended. *)

MaxUploads == 2

StoredFiles ==
    { [state |-> "missing", file_id |-> Absent],
      [state |-> "corrupt", file_id |-> Absent],
      [state |-> "valid", file_id |-> Absent],
      [state |-> "valid", file_id |-> 1] }

NoUpload ==
    [ pc |-> "idle", stored |-> [state |-> "missing", file_id |-> Absent],
      file_id |-> Absent, created |-> 0, calls |-> 0, result |-> "none",
      at_call |-> [state |-> "missing", file_id |-> Absent],
      update |-> "none", create |-> "none" ]

\* load_file_id: None for a missing file and for one that cannot be loaded
load_file_id(stored) ==
    IF stored.state = "valid" THEN stored.file_id ELSE Absent

\* a second upload whatever the update did
needs_upload_always(file_id) == TRUE

\* "if not file_id:"
needs_upload(file_id) == ~TruthyInt(file_id)

\* a file id is on disk before the first call
StoreFileId(stored) ==
    /\ drive.pc = "idle" /\ drive.calls = 0 /\ drive.stored.state = "missing"
    /\ drive' = [drive EXCEPT !.stored = stored, !.created = IF stored.file_id = 1 THEN 1 ELSE 0]
    /\ UNCHANGED <<pc, entries, entities, include_private, worldbook,
                   text, text_map, replaced, lines, lines_per_page, pages,
                   anchor, anchor_name, include_posts, config_file, config, fetch, auth, run, sync>>

\* upload_or_update_file(): get_drive_service returns or raises
CallUpload(authenticated) ==
    /\ drive.pc \in {"idle", "returned"}
    /\ drive.calls < MaxUploads
    /\ drive' = [ drive EXCEPT
                    !.calls = @ + 1, !.at_call = drive.stored,
                    !.update = "none", !.create = "none",
                    !.file_id = IF authenticated THEN load_file_id(drive.stored) ELSE Absent,
                    !.result = IF authenticated THEN "none" ELSE "False",
                    !.pc = IF ~authenticated THEN "returned"
                           ELSE IF TruthyInt(load_file_id(drive.stored)) THEN "update"
                           ELSE "upload" ]
    /\ UNCHANGED <<pc, entries, entities, include_private, worldbook,
                   text, text_map, replaced, lines, lines_per_page, pages,
                   anchor, anchor_name, include_posts, config_file, config, fetch, auth, run, sync>>

\* service.files().update(fileId=file_id, ...).execute()
UpdateFile(ok) ==
    /\ drive.pc = "update"
    /\ LET file_id == IF ok THEN drive.file_id ELSE Absent
       IN  drive' = [ drive EXCEPT
                        !.update = IF ok THEN "ok" ELSE "failed",
                        !.file_id = file_id,
                        !.pc = IF needs_upload(file_id) THEN "upload" ELSE "share" ]
    /\ UNCHANGED <<pc, entries, entities, include_private, worldbook,
                   text, text_map, replaced, lines, lines_per_page, pages,
                   anchor, anchor_name, include_posts, config_file, config, fetch, auth, run, sync>>

(* service.files().create(...).execute() and save_file_id: the save
   writes the new id, leaves the file as it is (open fails) or leaves a
   file that cannot be loaded (the dump fails) *)
CreateFile(ok, saved) ==
    /\ drive.pc = "upload"
    /\ drive' = IF ok
                THEN [ drive EXCEPT
                         !.create = "ok", !.created = @ + 1,
                         !.file_id = drive.created + 1,
                         !.stored = CASE saved = "saved" ->
                                           [state |-> "valid", file_id |-> drive.created + 1]
                                      [] saved = "no_open" -> @
                                      [] OTHER -> [state |-> "corrupt", file_id |-> Absent],
                         !.pc = "share" ]
                ELSE [ drive EXCEPT !.create = "failed", !.result = "False",
                                    !.pc = "returned" ]
    /\ UNCHANGED <<pc, entries, entities, include_private, worldbook,
                   text, text_map, replaced, lines, lines_per_page, pages,
                   anchor, anchor_name, include_posts, config_file, config, fetch, auth, run, sync>>

\* the sharing permission, whose failure is only logged, and the links
ShareAndGetLinks(links_ok) ==
    /\ drive.pc = "share"
    /\ drive' = [ drive EXCEPT !.result = IF links_ok THEN "True" ELSE "False",
                                !.pc = "returned" ]
    /\ UNCHANGED <<pc, entries, entities, include_private, worldbook,
                   text, text_map, replaced, lines, lines_per_page, pages,
                   anchor, anchor_name, include_posts, config_file, config, fetch, auth, run, sync>>

----------------------------------------------------------------------------
(* publish_to_drive_oauth.py: get_drive_service, followed call by call.
   token is the file at TOKEN_PATH: missing, not loadable (a pickle that
   does not load, or the file truncated by a failed dump), or holding a
   credential that is valid, expired with a refresh token, or neither.
   The fields load, refresh and flow remember how the steps of the
   running call ended, and at_flow the token file when the interactive
   flow started. *)

MaxServiceCalls == 2

TokenFiles == {"unloadable", "valid", "expired", "invalid"}

NoAuth ==
    [ pc |-> "idle", token |-> "missing", creds |-> "None", calls |-> 0,
      load |-> "none", refresh |-> "none", flow |-> "none",
      at_flow |-> "none", result |-> "none" ]

\* os.path.exists(TOKEN_PATH) and pickle.load gives a credential
Loadable(token) == token \in {"valid", "expired", "invalid"}

(* clear_expired_token: os.remove of an existing file; a failure of
   os.remove is logged and the file stays *)
clear_expired_token(token, removable) ==
    IF token # "missing" /\ removable THEN "missing" ELSE token

\* a token file is on disk before the first call
StoreToken(token) ==
    /\ auth.pc = "idle" /\ auth.calls = 0 /\ auth.token = "missing"
    /\ auth' = [auth EXCEPT !.token = token]
    /\ UNCHANGED <<pc, entries, entities, include_private, worldbook,
                   text, text_map, replaced, lines, lines_per_page, pages,
                   anchor, anchor_name, include_posts, config_file, config,
                   fetch, drive, run, sync>>

(* get_drive_service(), up to the test of the loaded credential: a
   valid one is returned with the service, an expired one with a refresh
   token goes to the refresh, anything else to the interactive flow *)
CallGetDriveService(removable) ==
    /\ auth.pc \in {"idle", "returned", "raised"}
    /\ auth.calls < MaxServiceCalls
    /\ LET exists == auth.token # "missing"
           loaded == Loadable(auth.token)
           token == IF exists /\ ~loaded
                    THEN clear_expired_token(auth.token, removable)
                    ELSE auth.token
           creds == IF loaded THEN auth.token ELSE "None"
       IN  auth' = [ auth EXCEPT
                       !.calls = @ + 1,
                       !.token = token,
                       !.creds = creds,
                       !.load = IF ~exists THEN "none"
                                ELSE IF loaded THEN "ok" ELSE "failed",
                       !.refresh = "none", !.flow = "none",
                       !.at_flow = IF creds \in {"valid", "expired"} THEN "none" ELSE token,
                       !.result = IF creds = "valid" THEN "service" ELSE "none",
                       !.pc = CASE creds = "valid" -> "returned"
                                [] creds = "expired" -> "refresh"
                                [] OTHER -> "flow" ]
    /\ UNCHANGED <<pc, entries, entities, include_private, worldbook,
                   text, text_map, replaced, lines, lines_per_page, pages,
                   anchor, anchor_name, include_posts, config_file, config,
                   fetch, drive, run, sync>>

(* creds.refresh(Request()), the dump of the refreshed credential and
   both except branches: a refresh that fails, or a dump that fails after
   truncating the file, ends in clear_expired_token and the flow *)
Refresh(outcome, removable) ==
    /\ auth.pc = "refresh"
    /\ auth' = IF outcome = "ok"
               THEN [ auth EXCEPT !.refresh = "ok", !.creds = "refreshed",
                                  !.token = "valid", !.result = "service",
                                  !.pc = "returned" ]
               ELSE LET token == clear_expired_token(
                                     IF outcome = "no_dump" THEN "unloadable" ELSE auth.token,
                                     removable)
                    IN  [ auth EXCEPT !.refresh = outcome,
                                      !.creds = IF outcome = "no_dump" THEN "refreshed" ELSE @,
                                      !.token = token, !.at_flow = token,
                                      !.pc = "flow" ]
    /\ UNCHANGED <<pc, entries, entities, include_private, worldbook,
                   text, text_map, replaced, lines, lines_per_page, pages,
                   anchor, anchor_name, include_posts, config_file, config,
                   fetch, drive, run, sync>>

(* the interactive flow: the credentials file is missing or
   run_local_server raises, and the exception propagates; or the new
   credential is dumped to the token file and the service returned; or
   the dump fails after truncating the file, and the exception
   propagates *)
Flow(outcome) ==
    /\ auth.pc = "flow"
    /\ auth' = CASE outcome = "ok" ->
                     [ auth EXCEPT !.flow = "ok", !.creds = "new", !.token = "valid",
                                   !.result = "service", !.pc = "returned" ]
                [] outcome = "no_dump" ->
                     [ auth EXCEPT !.flow = "no_dump", !.creds = "new",
                                   !.token = "unloadable",
                                   !.result = "exception", !.pc = "raised" ]
                [] OTHER ->
                     [ auth EXCEPT !.flow = outcome,
                                   !.result = "exception", !.pc = "raised" ]
    /\ UNCHANGED <<pc, entries, entities, include_private, worldbook,
                   text, text_map, replaced, lines, lines_per_page, pages,
                   anchor, anchor_name, include_posts, config_file, config,
                   fetch, drive, run, sync>>

----------------------------------------------------------------------------
(* main.py: main_with_config, one action per step.  attempted lists the
   step functions called, raised the steps in which an exception was
   raised, errors the steps that wrote an error to the log; md and html
   tell whether worldbook.md and worldbook_styled.html exist. *)

Steps ==
    << "fetch_entities", "process_entities", "generate_markdown",
       "convert_to_html", "convert_to_pdf", "upload_to_drive" >>

StepNames == { Steps[i] : i \in 1..Len(Steps) }

NoRun ==
    [ pc |-> "idle", md |-> FALSE, html |-> FALSE,
      attempted |-> <<>>, raised |-> {}, errors |-> {},
      step_results |-> [st \in StepNames |-> "none"],
      output_html |-> "None", output_pdf |-> "None" ]

\* the upload is attempted whatever convert_to_pdf returned
pdf_generated_always(output_pdf) == TRUE

\* "if output_pdf:"
pdf_generated(output_pdf) == output_pdf # "None"

\* main_with_config(): the files the earlier runs have left
StartRun(md, html) ==
    /\ run.pc = "idle"
    /\ run' = [run EXCEPT !.pc = "fetch_entities", !.md = md, !.html = html]
    /\ UNCHANGED <<pc, entries, entities, include_private, worldbook,
                   text, text_map, replaced, lines, lines_per_page, pages,
                   anchor, anchor_name, include_posts, config_file, config,
                   fetch, drive, auth, sync>>

(* STEP 1: fetch_entities catches the exception of the fetch itself and
   logs it, so the step is SUCCESS either way *)
Step_fetch_entities(raises) ==
    /\ run.pc = "fetch_entities"
    /\ run' = [ run EXCEPT
                  !.attempted = Append(@, "fetch_entities"),
                  !.raised = IF raises THEN @ \cup {"fetch_entities"} ELSE @,
                  !.errors = IF raises THEN @ \cup {"fetch_entities"} ELSE @,
                  !.step_results["fetch_entities"] = "SUCCESS",
                  !.pc = "process_entities" ]
    /\ UNCHANGED <<pc, entries, entities, include_private, worldbook,
                   text, text_map, replaced, lines, lines_per_page, pages,
                   anchor, anchor_name, include_posts, config_file, config,
                   fetch, drive, auth, sync>>

\* STEP 2: an exception of process_entities reaches main_with_config
Step_process_entities(raises) ==
    /\ run.pc = "process_entities"
    /\ run' = [ run EXCEPT
                  !.attempted = Append(@, "process_entities"),
                  !.raised = IF raises THEN @ \cup {"process_entities"} ELSE @,
                  !.errors = IF raises THEN @ \cup {"process_entities"} ELSE @,
                  !.step_results["process_entities"] = IF raises THEN "FAILED" ELSE "SUCCESS",
                  !.pc = "generate_markdown" ]
    /\ UNCHANGED <<pc, entries, entities, include_private, worldbook,
                   text, text_map, replaced, lines, lines_per_page, pages,
                   anchor, anchor_name, include_posts, config_file, config,
                   fetch, drive, auth, sync>>

(* STEP 3: generate_markdown writes worldbook.md; an exception reaches
   main_with_config *)
Step_generate_markdown(raises) ==
    /\ run.pc = "generate_markdown"
    /\ run' = [ run EXCEPT
                  !.attempted = Append(@, "generate_markdown"),
                  !.raised = IF raises THEN @ \cup {"generate_markdown"} ELSE @,
                  !.errors = IF raises THEN @ \cup {"generate_markdown"} ELSE @,
                  !.md = IF raises THEN @ ELSE TRUE,
                  !.step_results["generate_markdown"] = IF raises THEN "FAILED" ELSE "SUCCESS",
                  !.pc = "convert_to_html" ]
    /\ UNCHANGED <<pc, entries, entities, include_private, worldbook,
                   text, text_map, replaced, lines, lines_per_page, pages,
                   anchor, anchor_name, include_posts, config_file, config,
                   fetch, drive, auth, sync>>

(* STEP 4: convert_to_html logs a missing markdown file and still
   returns the name of the HTML file; it catches the exception of the
   conversion, logs it and returns None *)
Step_convert_to_html(raises) ==
    /\ run.pc = "convert_to_html"
    /\ LET converts == run.md
           failed == converts /\ raises
       IN  run' = [ run EXCEPT
                      !.attempted = Append(@, "convert_to_html"),
                      !.raised = IF failed THEN @ \cup {"convert_to_html"} ELSE @,
                      !.errors = IF failed \/ ~converts THEN @ \cup {"convert_to_html"} ELSE @,
                      !.html = IF converts /\ ~raises THEN TRUE ELSE @,
                      !.output_html = IF failed THEN "None" ELSE "worldbook_styled.html",
                      !.step_results["convert_to_html"] = "SUCCESS",
                      !.pc = "convert_to_pdf" ]
    /\ UNCHANGED <<pc, entries, entities, include_private, worldbook,
                   text, text_map, replaced, lines, lines_per_page, pages,
                   anchor, anchor_name, include_posts, config_file, config,
                   fetch, drive, auth, sync>>

(* STEP 5: convert_to_pdf returns the name of the PDF after a
   conversion, and None when the HTML file is not there or the
   conversion raised *)
Step_convert_to_pdf(raises) ==
    /\ run.pc = "convert_to_pdf"
    /\ LET converts == run.output_html # "None" /\ run.html
           failed == converts /\ raises
           output_pdf == IF converts /\ ~raises THEN "worldbook.pdf" ELSE "None"
       IN  run' = [ run EXCEPT
                      !.attempted = Append(@, "convert_to_pdf"),
                      !.raised = IF failed THEN @ \cup {"convert_to_pdf"} ELSE @,
                      !.errors = IF failed \/ ~converts THEN @ \cup {"convert_to_pdf"} ELSE @,
                      !.output_pdf = output_pdf,
                      !.step_results["convert_to_pdf"] = "SUCCESS",
                      !.pc = IF pdf_generated(output_pdf) THEN "upload_to_drive" ELSE "skip" ]
    /\ UNCHANGED <<pc, entries, entities, include_private, worldbook,
                   text, text_map, replaced, lines, lines_per_page, pages,
                   anchor, anchor_name, include_posts, config_file, config,
                   fetch, drive, auth, sync>>

\* STEP 6: upload_to_drive catches and logs the exception of the upload
Step_upload_to_drive(raises) ==
    /\ run.pc = "upload_to_drive"
    /\ run' = [ run EXCEPT
                  !.attempted = Append(@, "upload_to_drive"),
                  !.raised = IF raises THEN @ \cup {"upload_to_drive"} ELSE @,
                  !.errors = IF raises THEN @ \cup {"upload_to_drive"} ELSE @,
                  !.step_results["upload_to_drive"] = "SUCCESS",
                  !.pc = "done" ]
    /\ UNCHANGED <<pc, entries, entities, include_private, worldbook,
                   text, text_map, replaced, lines, lines_per_page, pages,
                   anchor, anchor_name, include_posts, config_file, config,
                   fetch, drive, auth, sync>>

\* the else branch of "if output_pdf:"
SkipUploadToDrive ==
    /\ run.pc = "skip"
    /\ run' = [ run EXCEPT !.step_results["upload_to_drive"] = "SKIPPED",
                           !.pc = "done" ]
    /\ UNCHANGED <<pc, entries, entities, include_private, worldbook,
                   text, text_map, replaced, lines, lines_per_page, pages,
                   anchor, anchor_name, include_posts, config_file, config,
                   fetch, drive, auth, sync>>

----------------------------------------------------------------------------
(* kanka_function.py and main.fetch_entities: the incremental fetch over
   several runs.  Time is a clock of whole ticks; updated_at[e] is the
   time of the last change of entity e at Kanka, saved[e] the updated_at
   of the copy in its combined JSON file (Absent: none), last_run the
   time in last_run.json (Absent: no file).  eligible and fetched
   remember the entities that were newer than last_run when the running
   fetch started and the ones it has saved. *)

MaxRemote == 2
MaxClock == 3
MaxRuns == 2

Remote == 1..MaxRemote

NoSync ==
    [ pc |-> "idle", clock |-> 0, runs |-> 0, now |-> 0, last_run |-> Absent,
      updated_at |-> [e \in Remote |-> 0],
      saved |-> [e \in Remote |-> Absent],
      queue |-> <<>>, eligible |-> {}, fetched |-> {} ]

\* filter_updated_entities: "if updated_at_dt <= last_run: continue"
is_updated(updated_at, last_run) ==
    ~(last_run # Absent /\ updated_at <= last_run)

RECURSIVE filter_updated_entities(_, _, _)
filter_updated_entities(e, updated_at, last_run) ==
    IF e > MaxRemote THEN <<>>
    ELSE (IF is_updated(updated_at[e], last_run) THEN <<e>> ELSE <<>>)
         \o filter_updated_entities(e + 1, updated_at, last_run)

\* the last-run time stays behind when an entity could not be fetched
last_run_after_held(st) ==
    IF st.eligible \subseteq st.fetched THEN st.now ELSE st.last_run

\* fetch_entities: save_last_run_time(now) once the fetch has returned
last_run_after(st) == st.now

\* an entity is changed at Kanka
UpdateEntity(e) ==
    /\ sync.pc = "idle"
    /\ sync.clock < MaxClock
    /\ sync' = [ sync EXCEPT !.clock = @ + 1, !.updated_at[e] = sync.clock + 1 ]
    /\ UNCHANGED <<pc, entries, entities, include_private, worldbook,
                   text, text_map, replaced, lines, lines_per_page, pages,
                   anchor, anchor_name, include_posts, config_file, config,
                   fetch, drive, auth, run>>

(* main_with_config takes now, fetch_entities calls
   fetch_and_save_updated_entities: load_last_run_time,
   fetch_all_entities and the filter; an exception of the listing ends
   the fetch with last_run.json as it was *)
StartFetch(listed) ==
    /\ sync.pc = "idle"
    /\ sync.runs < MaxRuns
    /\ LET queue == filter_updated_entities(1, sync.updated_at, sync.last_run)
       IN  sync' = IF listed
                   THEN [ sync EXCEPT !.pc = "fetching", !.runs = @ + 1,
                                      !.now = sync.clock, !.queue = queue,
                                      !.eligible = { queue[i] : i \in 1..Len(queue) },
                                      !.fetched = {} ]
                   ELSE [ sync EXCEPT !.runs = @ + 1, !.now = sync.clock,
                                      !.eligible = {}, !.fetched = {} ]
    /\ UNCHANGED <<pc, entries, entities, include_private, worldbook,
                   text, text_map, replaced, lines, lines_per_page, pages,
                   anchor, anchor_name, include_posts, config_file, config,
                   fetch, drive, auth, run>>

(* one turn of the loop: fetch_full_entity_data gives the data, which
   are saved, or None after all retries, and the loop continues; an
   exception of a save ends the fetch with last_run.json as it was *)
FetchFullEntityData(outcome) ==
    /\ sync.pc = "fetching"
    /\ sync.queue # <<>>
    /\ LET e == Head(sync.queue)
       IN  sync' = CASE outcome = "data" ->
                        [ sync EXCEPT !.saved[e] = sync.updated_at[e],
                                      !.fetched = @ \cup {e},
                                      !.queue = Tail(@) ]
                   [] outcome = "None" ->
                        [ sync EXCEPT !.queue = Tail(@) ]
                   [] OTHER ->
                        [ sync EXCEPT !.queue = <<>>, !.pc = "idle" ]
    /\ UNCHANGED <<pc, entries, entities, include_private, worldbook,
                   text, text_map, replaced, lines, lines_per_page, pages,
                   anchor, anchor_name, include_posts, config_file, config,
                   fetch, drive, auth, run>>

\* the loop is over: the fetch returns and fetch_entities saves now
SaveLastRunTime ==
    /\ sync.pc = "fetching"
    /\ sync.queue = <<>>
    /\ sync' = [ sync EXCEPT !.last_run = last_run_after(sync), !.pc = "saved" ]
    /\ UNCHANGED <<pc, entries, entities, include_private, worldbook,
                   text, text_map, replaced, lines, lines_per_page, pages,
                   anchor, anchor_name, include_posts, config_file, config,
                   fetch, drive, auth, run>>

\* the rest of main_with_config
EndRun ==
    /\ sync.pc = "saved"
    /\ sync' = [ sync EXCEPT !.pc = "idle" ]
    /\ UNCHANGED <<pc, entries, entities, include_private, worldbook,
                   text, text_map, replaced, lines, lines_per_page, pages,
                   anchor, anchor_name, include_posts, config_file, config,
                   fetch, drive, auth, run>>

----------------------------------------------------------------------------
(* create_anchor_label on its own: a name is None, the empty string or is
   typed character by character; the label is made of it, and then made
   again of the label (a link anchor that is normalized once more). *)

MaxNameLen == 3

NameAlphabet == {"A", "b", " ", "-", "!", "A_acute", "TM_sign"}

NoAnchor == [passes |-> 0, first |-> <<>>, out |-> <<>>]

TypeNameChar(c) ==
    /\ pc = "start"
    /\ anchor.passes = 0
    /\ anchor_name = AbsentStr \/ Len(anchor_name) < MaxNameLen
    /\ anchor_name' = IF anchor_name = AbsentStr THEN <<c>> ELSE Append(anchor_name, c)
    /\ UNCHANGED <<pc, entries, entities, include_private, worldbook,
                   text, text_map, replaced, lines, lines_per_page, pages, anchor, include_posts, config_file, config, fetch, drive, auth, run, sync>>

\* the name is the empty string
EmptyName ==
    /\ pc = "start"
    /\ anchor.passes = 0
    /\ anchor_name = AbsentStr
    /\ anchor_name' = EmptyStr
    /\ UNCHANGED <<pc, entries, entities, include_private, worldbook,
                   text, text_map, replaced, lines, lines_per_page, pages, anchor, include_posts, config_file, config, fetch, drive, auth, run, sync>>

CreateAnchorLabel ==
    /\ pc = "start"
    /\ anchor.passes = 0
    /\ anchor' = [ passes |-> 1, first |-> create_anchor_label(anchor_name),
                   out |-> create_anchor_label(anchor_name) ]
    /\ UNCHANGED <<pc, entries, entities, include_private, worldbook,
                   text, text_map, replaced, lines, lines_per_page, pages, anchor_name, include_posts, config_file, config, fetch, drive, auth, run, sync>>

CreateAnchorLabelAgain ==
    /\ pc = "start"
    /\ anchor.passes = 1
    /\ anchor' = [anchor EXCEPT !.passes = 2, !.out = create_anchor_label(anchor.out)]
    /\ UNCHANGED <<pc, entries, entities, include_private, worldbook,
                   text, text_map, replaced, lines, lines_per_page, pages, anchor_name, include_posts, config_file, config, fetch, drive, auth, run, sync>>

----------------------------------------------------------------------------
(* The paginator on its own: lines are written one by one, then
   paginate_and_columnize is applied with some lines_per_page. *)

SampleLines == { <<>>, <<" ">>, <<"a">>, <<"b">> }

WriteLine(l) ==
    /\ pc = "start"
    /\ ~pages.done
    /\ Len(lines) < MaxLines
    /\ lines' = Append(lines, l)
    /\ UNCHANGED <<pc, entries, entities, include_private, worldbook,
                   text, text_map, replaced, lines_per_page, pages, anchor, anchor_name, include_posts, config_file, config, fetch, drive, auth, run, sync>>

Paginate(n) ==
    /\ pc = "start"
    /\ ~pages.done
    /\ lines_per_page' = n
    /\ pages' = [done |-> TRUE, out |-> paginate_and_columnize(lines, n)]
    /\ UNCHANGED <<pc, entries, entities, include_private, worldbook,
                   text, text_map, replaced, lines, anchor, anchor_name, include_posts, config_file, config, fetch, drive, auth, run, sync>>

----------------------------------------------------------------------------
(* Initial state and specifications. *)

Init ==
    /\ pc = "start"
    /\ entries = <<>>
    /\ entities = NoEntities
    /\ include_private = FALSE
    /\ worldbook = NotGenerated
    /\ text = <<>>
    /\ text_map = <<>>
    /\ replaced = NotRun
    /\ lines = <<>>
    /\ lines_per_page = 1
    /\ pages = NotRun
    /\ anchor = NoAnchor
    /\ anchor_name = AbsentStr
    /\ include_posts = TRUE
    /\ config_file = NoConfigFile
    /\ config = NotLoaded
    /\ fetch = NoFetch
    /\ drive = NoUpload
    /\ auth = NoAuth
    /\ run = NoRun
    /\ sync = NoSync

NextMentions == (\E c \in MentionAlphabet : TypeChar(c)) \/ ReplaceMentions

SpecMentions == Init /\ [][NextMentions]_vars

NextPrivacy ==
    \/ /\ Len(entries) < MaxPrivacyEntries
       /\ \E e \in PrivacyEntries(Len(entries) + 1) : LoadEntry(e)
    \/ ProcessEntities(FALSE)
    \/ PassExtraBuckets
    \/ \E inc \in BOOLEAN : GenerateWorldbook(inc)

SpecPrivacy == Init /\ [][NextPrivacy]_vars

NextTree ==
    \/ /\ Len(entries) < MaxTreeEntries
       /\ \E e \in TreeEntries(Len(entries) + 1) : LoadEntry(e)
    \/ \E has_campaign \in BOOLEAN : ProcessEntities(has_campaign)
    \/ \E inc \in BOOLEAN : GenerateWorldbook(inc)

SpecTree == Init /\ [][NextTree]_vars

NextMembers ==
    \/ /\ Len(entries) < MaxMemberEntries
       /\ \E e \in MemberEntries(Len(entries) + 1) : LoadEntry(e)
    \/ ProcessEntities(FALSE)
    \/ \E e \in 1..MaxMemberEntries : PassEntityMapWithout(e)
    \/ \E inc \in BOOLEAN : GenerateWorldbook(inc)

SpecMembers == Init /\ [][NextMembers]_vars

NextChapters ==
    \/ /\ Len(entries) < MaxChapterEntries
       /\ \E e \in ChapterEntries(Len(entries) + 1) : LoadEntry(e)
    \/ \E has_campaign \in BOOLEAN : ProcessEntities(has_campaign)
    \/ PassExtraBuckets
    \/ \E inc \in BOOLEAN : GenerateWorldbook(inc)

SpecChapters == Init /\ [][NextChapters]_vars

NextPosts ==
    \/ \E b \in BOOLEAN : ConfigIncludePosts(b)
    \/ /\ Len(entries) < MaxPostEntries
       /\ \E e \in PostEntries(Len(entries) + 1) : LoadEntry(e)
    \/ ProcessEntities(FALSE)
    \/ \E inc \in BOOLEAN : GenerateWorldbook(inc)

SpecPosts == Init /\ [][NextPosts]_vars

NextFilter ==
    \/ /\ Len(entries) < MaxFilterEntries
       /\ \E e \in FilterEntries(Len(entries) + 1) : LoadEntry(e)
    \/ \E has_campaign \in BOOLEAN : ProcessEntities(has_campaign)

SpecFilter == Init /\ [][NextFilter]_vars

NextConfig ==
    \/ \E readable \in BOOLEAN : CreateConfigFile(readable)
    \/ \E tok \in JsonTokens : WriteConfigToken(tok)
    \/ LoadConfig

SpecConfig == Init /\ [][NextConfig]_vars

NextFetch ==
    \/ \E max_retries \in 0..MaxRetries : CallFetch(max_retries)
    \/ \E outcome \in GetOutcomes : Get(outcome)
    \/ Sleep
    \/ ReturnNone

SpecFetch == Init /\ [][NextFetch]_vars

NextOrder ==
    \/ /\ Len(entries) < MaxOrderEntries
       /\ \E e \in OrderEntries(Len(entries) + 1) : LoadEntry(e)
    \/ ProcessEntities(FALSE)
    \/ GenerateWorldbook(TRUE)

SpecOrder == Init /\ [][NextOrder]_vars

NextUpload ==
    \/ \E stored \in StoredFiles : StoreFileId(stored)
    \/ \E authenticated \in BOOLEAN : CallUpload(authenticated)
    \/ \E ok \in BOOLEAN : UpdateFile(ok)
    \/ \E ok \in BOOLEAN, saved \in {"saved", "no_open", "no_dump"} : CreateFile(ok, saved)
    \/ \E links_ok \in BOOLEAN : ShareAndGetLinks(links_ok)

SpecUpload == Init /\ [][NextUpload]_vars

NextAuth ==
    \/ \E token \in TokenFiles : StoreToken(token)
    \/ \E removable \in BOOLEAN : CallGetDriveService(removable)
    \/ \E outcome \in {"ok", "RefreshError", "Exception", "no_dump"}, removable \in BOOLEAN :
           Refresh(outcome, removable)
    \/ \E outcome \in {"ok", "FileNotFoundError", "Exception", "no_dump"} : Flow(outcome)

SpecAuth == Init /\ [][NextAuth]_vars

NextRun ==
    \/ \E md \in BOOLEAN, html \in BOOLEAN : StartRun(md, html)
    \/ \E raises \in BOOLEAN : Step_fetch_entities(raises)
    \/ \E raises \in BOOLEAN : Step_process_entities(raises)
    \/ \E raises \in BOOLEAN : Step_generate_markdown(raises)
    \/ \E raises \in BOOLEAN : Step_convert_to_html(raises)
    \/ \E raises \in BOOLEAN : Step_convert_to_pdf(raises)
    \/ \E raises \in BOOLEAN : Step_upload_to_drive(raises)
    \/ SkipUploadToDrive

SpecRun == Init /\ [][NextRun]_vars

NextSync ==
    \/ \E e \in Remote : UpdateEntity(e)
    \/ \E listed \in BOOLEAN : StartFetch(listed)
    \/ \E outcome \in {"data", "None", "exception"} : FetchFullEntityData(outcome)
    \/ SaveLastRunTime
    \/ EndRun

SpecSync == Init /\ [][NextSync]_vars

NextDepth ==
    \/ /\ Len(entries) < MaxChainEntries
       /\ \E e \in ChainEntries(Len(entries) + 1) : LoadEntry(e)
    \/ ProcessEntities(FALSE)
    \/ \E inc \in BOOLEAN : GenerateWorldbook(inc)

SpecDepth == Init /\ [][NextDepth]_vars

NextIdentity ==
    \/ /\ Len(entries) < MaxNamedEntries
       /\ \E e \in NamedEntries(Len(entries) + 1) : LoadEntry(e)
    \/ ProcessEntities(FALSE)

SpecIdentity == Init /\ [][NextIdentity]_vars

NextAnchor ==
    \/ EmptyName
    \/ \E c \in NameAlphabet : TypeNameChar(c)
    \/ CreateAnchorLabel
    \/ CreateAnchorLabelAgain

SpecAnchor == Init /\ [][NextAnchor]_vars

NextPaginate ==
    \/ \E l \in SampleLines : WriteLine(l)
    \/ \E n \in 1..MaxLinesPerPage : Paginate(n)

SpecPaginate == Init /\ [][NextPaginate]_vars

----------------------------------------------------------------------------
(* Claims about replace_mentions. *)

(* s[i..j] is a mention token [type:N]: a bracket, one or more word
   characters, a colon, one or more digits, a bracket. *)
IsMentionToken(s, i, j) ==
    /\ 1 <= i /\ j <= Len(s)
    /\ s[i] = "[" /\ s[j] = "]"
    /\ \E k \in (i + 2)..(j - 2) :
          /\ s[k] = ":"
          /\ \A m \in (i + 1)..(k - 1) : IsWord(s[m])
          /\ \A m \in (k + 1)..(j - 1) : IsDigit(s[m])

TokenEnd(s, i) == CHOOSE j \in i..Len(s) : IsMentionToken(s, i, j)

TokenDigits(s, i) ==
    LET j == TokenEnd(s, i)
        k == CHOOSE k \in (i + 2)..(j - 2) :
                 s[k] = ":" /\ \A m \in (k + 1)..(j - 1) : IsDigit(s[m])
    IN  SubSeq(s, k + 1, j - 1)

StartsToken(s, i) == \E j \in i..Len(s) : IsMentionToken(s, i, j)

InsideToken(s, p) ==
    \E i \in 1..(p - 1) : \E j \in p..Len(s) : IsMentionToken(s, i, j)

LinkTo(name) ==
    <<"[">> \o name \o <<"]", "(", "#">> \o create_anchor_label(name) \o <<")">>

Placeholder(digits) ==
    <<"*", "*", "E", "n", "t", "i", "t", "y", "_">> \o digits \o <<"*", "*">>

(* The text with every token replaced by Replacement(its digits) and
   everything else kept. *)
TokensReplaced(s, Replacement(_)) ==
    Concat([p \in 1..Len(s) |->
              IF StartsToken(s, p) THEN Replacement(TokenDigits(s, p))
              ELSE IF InsideToken(s, p) THEN <<>>
              ELSE <<s[p]>>])

(* C6 as stated: every token [type:N] becomes the link of entity N when N
   is a key of the identity map and otherwise the placeholder **Entity_N**
   with N as it is written in the token; the rest of the text is unchanged. *)
C6_AsWritten ==
    replaced.done =>
      replaced.out =
        TokensReplaced(text,
          LAMBDA n : IF IntOf(n) \in DOMAIN text_map
                     THEN LinkTo(text_map[IntOf(n)].name)
                     ELSE Placeholder(n))

(* C6, amended: every token [type:N] becomes the link of the entity whose id
   is the integer value of N when the identity map has it, and otherwise the
   placeholder **Entity_n** where n is that integer written in decimal
   without leading zeros; the rest of the text is unchanged. *)
C6_MentionsReplaced ==
    replaced.done =>
      replaced.out =
        TokensReplaced(text,
          LAMBDA n : IF IntOf(n) \in DOMAIN text_map
                     THEN LinkTo(text_map[IntOf(n)].name)
                     ELSE Placeholder(StrOf(IntOf(n))))

(* C6 witness: a token with a leading zero that the map resolves, and text
   around no token, have been through replace_mentions. *)
C6_Witness ==
    /\ replaced.done
    /\ text = <<"[", "a", ":", "0", "1", "]">>
    /\ 1 \in DOMAIN text_map
    /\ replaced.out = LinkTo(SampleName)

----------------------------------------------------------------------------
(* Claims about paginate_and_columnize. *)

(* s.split('\n') *)
RECURSIVE SplitLines(_)
SplitLines(s) ==
    IF \A i \in 1..Len(s) : s[i] # "\n" THEN <<s>>
    ELSE LET i == CHOOSE i \in 1..Len(s) :
                      s[i] = "\n" /\ \A j \in 1..(i - 1) : s[j] # "\n"
         IN  <<SubSeq(s, 1, i - 1)>> \o SplitLines(SubSeq(s, i + 1, Len(s)))

DelimiterLine == <<"/">>

(* the two columns of a segment: its lines before and after the delimiter
   line; a column that is the empty string holds no line *)
ColumnsOf(segment) ==
    LET ls == SplitLines(segment)
        d == CHOOSE d \in 1..Len(ls) :
                 ls[d] = DelimiterLine /\ \A j \in 1..(d - 1) : ls[j] # DelimiterLine
        LinesOf(col) == IF col = << <<>> >> THEN <<>> ELSE col
    IN  <<LinesOf(SubSeq(ls, 1, d - 1)), LinesOf(SubSeq(ls, d + 1, Len(ls)))>>

(* the lines of all emitted segments, in order, without the delimiter lines *)
ReassembledLines ==
    Concat([i \in 1..Len(pages.out) |->
              ColumnsOf(pages.out[i])[1] \o ColumnsOf(pages.out[i])[2]])

(* lines i and i+1 of the input belong to one block (a paragraph: neither
   is blank) and some column holds them next to each other *)
BlockKeptTogether(i) ==
    \E p \in 1..Len(pages.out) : \E c \in 1..2 :
        LET col == ColumnsOf(pages.out[p])[c]
        IN  \E j \in 1..(Len(col) - 1) :
                col[j] = lines[i] /\ col[j + 1] = lines[i + 1]

(* C10 as stated: the emitted segments, concatenated in order and with the
   delimiter lines stripped, are the input line sequence exactly, and no
   block is split across a page or column delimiter. *)
C10_AsWritten ==
    pages.done =>
      /\ ReassembledLines = lines
      /\ \A i \in 1..(Len(lines) - 1) :
            (Strip(lines[i]) # <<>> /\ Strip(lines[i + 1]) # <<>>)
              => BlockKeptTogether(i)

----------------------------------------------------------------------------
(* Claims about generate_worldbook. *)

Returned == pc = "generated" /\ worldbook.status = "returned"

DocItems == {worldbook.doc[i] : i \in 1..Len(worldbook.doc)}

LinkKinds ==
    {"location", "family_member", "organization_member", "character_at_location"}

(* the record with envelope id e is shown: it has a heading block, or a
   location, member or mention link names it *)
AppearsInDocument(e) ==
    \E it \in DocItems :
        \/ it.k = "heading" /\ it.eid = e
        \/ it.k \in LinkKinds /\ it.target = e
        \/ it.k = "body" /\ e \in it.links

\* a privacy flag of the record, its own or its envelope's, is set
PrivateRecord(r) == r.is_private = 1 \/ r.e_is_private = 1

(* C1 as stated: with include_private = false no record with a privacy
   flag appears anywhere in the returned document, neither as a heading
   block of any chapter nor as a location, member or mention link inside
   another record's block. *)
C1_AsWritten ==
    (Returned /\ ~include_private) =>
      \A i \in 1..Len(entries) :
          PrivateRecord(entries[i]) => ~AppearsInDocument(entries[i].e_id)

(* C1 for heading blocks alone: with include_private = false no record
   with a privacy flag has a heading block in any chapter. *)
C1_Blocks ==
    (Returned /\ ~include_private) =>
      \A i \in 1..Len(entries) : \A it \in DocItems :
          PrivateRecord(entries[i]) =>
              ~(it.k = "heading" /\ it.eid = entries[i].e_id)

(* C1 for location and member links alone: with include_private = false
   no location, family-member or organization-member link names a record
   with a privacy flag. *)
C1_MemberLinks ==
    (Returned /\ ~include_private) =>
      \A i \in 1..Len(entries) : \A it \in DocItems :
          PrivateRecord(entries[i]) =>
              ~(it.k \in LinkKinds /\ it.target = entries[i].e_id)

\* the buckets generate_worldbook renders, after its privacy filter
RenderedBuckets == privacy_filter(entities, include_private)

HasHeading(ch, e, depths) ==
    \E it \in DocItems :
        it.k = "heading" /\ it.ch = ch /\ it.eid = e /\ it.depth \in depths

(* the character c lives at a location of the location bucket *)
LocationsOf(c) ==
    { l \in {RenderedBuckets.locations[i] : i \in 1..Len(RenderedBuckets.locations)} :
        c.location_id # Absent /\ l.id = c.location_id }

(* C2 as stated: a character whose location_id is the id of a location of
   the location bucket is listed in that location's characters list and
   has no block in the characters chapter. *)
C2_AsWritten ==
    Returned =>
      \A i \in 1..Len(RenderedBuckets.characters) :
          LET c == RenderedBuckets.characters[i]
          IN  LocationsOf(c) # {} =>
                /\ \E it \in DocItems :
                       /\ it.k = "character_at_location" /\ it.target = c.e_id
                       /\ \E l \in LocationsOf(c) : it.eid = l.e_id
                /\ ~HasHeading("characters", c.e_id, 0..MaxDepthLocation)

\* the effective id of a record: its top-level id, else its envelope id
EffectiveId(r) == IF r.id # Absent THEN r.id ELSE r.e_id

\* the parent reference of a record of the chapter
ParentRef(ch, r) ==
    CASE ch = "locations" -> r.location_id
      [] ch = "races" -> r.race_id
      [] OTHER -> node_parent_id(r)

HierarchicalChapters == GenericChapters \cup {"locations", "races"}

BucketSet(ch) == {RenderedBuckets[ch][i] : i \in 1..Len(RenderedBuckets[ch])}

(* the parent reference of r names no record of r's bucket *)
ParentNotInBucket(ch, r) ==
    \A q \in BucketSet(ch) : EffectiveId(q) # ParentRef(ch, r)

(* C3 as stated: in every hierarchical chapter a record whose parent id is
   not the id of any record of its bucket after privacy filtering is
   rendered as a root of the chapter; generate_worldbook does not raise on
   it and does not drop it. *)
C3_AsWritten ==
    pc = "generated" =>
      \A ch \in HierarchicalChapters : \A r \in BucketSet(ch) :
          (ParentRef(ch, r) # Absent /\ ParentNotInBucket(ch, r)) =>
              Returned /\ HasHeading(ch, r.e_id, {0})

(* C4 as stated: generate_worldbook on an entirely empty entity set (no
   record in any bucket, no campaign) returns the empty document. *)
C4_AsWritten ==
    (pc = "generated" /\ entries = <<>> /\ ~entities.campaign) =>
        Returned /\ worldbook.doc = <<>>

(* C5 as stated: generate_worldbook never raises when every record has an
   envelope with an id, whatever references are unresolved and whichever
   optional top-level fields (the top-level id among them) are absent. *)
C5_AsWritten ==
    (pc = "generated" /\ \A i \in 1..Len(entries) : entries[i].has_entity) =>
        worldbook.status = "returned"

----------------------------------------------------------------------------
(* Claims about the identity map. *)

EnvelopeIds == {entries[i].e_id : i \in {j \in 1..Len(entries) : entries[j].has_entity}}

\* "if present" read as: the key is there
NameIfKeyPresent(r) ==
    IF r.name # AbsentStr THEN r.name
    ELSE IF r.e_name # AbsentStr THEN r.e_name
    ELSE UnknownName

\* "if present" read as: the value is there and not empty
NameIfNonEmpty(r) ==
    IF r.name \notin {AbsentStr, EmptyStr} THEN r.name
    ELSE IF r.e_name \notin {AbsentStr, EmptyStr} THEN r.e_name
    ELSE UnknownName

\* a non-empty top-level name, else the envelope name when its key is there
NameAsBuilt(r) ==
    IF r.name \notin {AbsentStr, EmptyStr} THEN r.name
    ELSE IF r.e_name # AbsentStr THEN r.e_name
    ELSE UnknownName

TypeOrUnknown(r) == IF r.e_type = "ABSENT" THEN "Unknown" ELSE r.e_type

(* the map has exactly the envelope ids as keys, and the entry of every
   record with an envelope has the type and the name Name gives *)
EntityMapIs(Name(_)) ==
    /\ DOMAIN entities.entity_map = EnvelopeIds
    /\ \A i \in 1..Len(entries) :
          entries[i].has_entity =>
              /\ entities.entity_map[entries[i].e_id].name = Name(entries[i])
              /\ entities.entity_map[entries[i].e_id].type = TypeOrUnknown(entries[i])

(* C7 as stated: the map has one entry per record with an envelope, keyed
   by envelope id; its name is the top-level name if present, else the
   envelope name, else "Unknown" ("present" read in either of its two
   senses, the same for both names); its type is the envelope type, else
   "Unknown". *)
C7_AsWritten ==
    pc = "processed" =>
        EntityMapIs(NameIfKeyPresent) \/ EntityMapIs(NameIfNonEmpty)

(* C7, amended: the map has one entry per record with an envelope, keyed
   by envelope id (records without an envelope are skipped); its name is
   the top-level name if that is present and not empty, else the envelope
   name if the envelope has a name key (an empty name included), else
   "Unknown"; its type is the envelope type, else "Unknown". *)
C7_EntityMap == pc = "processed" => EntityMapIs(NameAsBuilt)

(* a record without an envelope was skipped, an empty top-level name gave
   way to the envelope name, and an empty envelope name was kept *)
C7_Witness ==
    /\ pc = "processed"
    /\ \E i \in 1..Len(entries) : ~entries[i].has_entity
    /\ \E i \in 1..Len(entries) :
          /\ entries[i].has_entity
          /\ entries[i].name = EmptyStr /\ entries[i].e_name = SampleName
          /\ entities.entity_map[entries[i].e_id].name = SampleName
    /\ \E i \in 1..Len(entries) :
          /\ entries[i].has_entity
          /\ entries[i].name = AbsentStr /\ entries[i].e_name = EmptyStr
          /\ entities.entity_map[entries[i].e_id].name = EmptyStr

\* the entry text a record is rendered with
RawEntry(r) == IF r.entry # AbsentStr THEN r.entry ELSE r.e_entry

(* C8: the identity map holds every record with an envelope, private ones
   included, so with include_private = false the body of a rendered record
   whose entry is a mention of a private entity is the link to that
   entity's name and not the **Entity_N** placeholder. *)
C8_PrivateMentionLinked ==
    (Returned /\ ~include_private) =>
        /\ DOMAIN entities.entity_map = EnvelopeIds
        /\ \A it \in DocItems : \A n \in 1..Len(entries) :
              ( /\ it.k = "body"
                /\ RawEntry(entries[it.eid]) = MentionOf(n)
                /\ PrivateRecord(entries[n]) ) =>
                  /\ it.s = LinkTo(entries[n].name)
                  /\ it.s # Placeholder(StrOf(n))

(* a public record that mentions the private record 1 is rendered *)
C8_Witness ==
    /\ Returned /\ ~include_private
    /\ Len(entries) > 1
    /\ PrivateRecord(entries[1])
    /\ \E it \in DocItems :
          /\ it.k = "body" /\ it.eid # 1
          /\ RawEntry(entries[it.eid]) = MentionOf(1)
          /\ it.s = LinkTo(entries[1].name)

----------------------------------------------------------------------------
(* Claims about the hierarchy. *)

\* the sequences that hold the elements of seq in another order
Reorderings(seq) ==
    { [i \in 1..Len(seq) |-> seq[p[i]]] : p \in Permutations(1..Len(seq)) }

TreeRoots(tree) == {tree.root_nodes[i].v.e_id : i \in 1..Len(tree.root_nodes)}

TreeEdges(tree) ==
    UNION { { <<DictGet(tree.nodes, k).e_id, tree.children[k][j].v.e_id>> :
                j \in 1..Len(tree.children[k]) } :
            k \in DOMAIN tree.children }

(* C9 as stated: for every bucket and every permutation of it,
   build_entity_tree and the location tree construction give the same set
   of roots and the same set of parent->child edges. *)
C9_AsWritten ==
    Returned =>
      /\ \A ch \in GenericChapters : \A other \in Reorderings(RenderedBuckets[ch]) :
            /\ TreeRoots(build_entity_tree(other)) = TreeRoots(worldbook.forest[ch])
            /\ TreeEdges(build_entity_tree(other)) = TreeEdges(worldbook.forest[ch])
      /\ \A other \in Reorderings(RenderedBuckets.locations) :
            /\ TreeRoots(location_tree(other)) = TreeRoots(worldbook.forest["locations"])
            /\ TreeEdges(location_tree(other)) = TreeEdges(worldbook.forest["locations"])

----------------------------------------------------------------------------
(* Claims about create_anchor_label. *)

(* C11 as stated: create_anchor_label is idempotent, the label of a label
   is that label, and the label of None or of the empty string is the
   empty string. *)
C11_AsWritten ==
    /\ anchor.passes = 2 => anchor.out = anchor.first
    /\ (anchor.passes >= 1 /\ anchor_name \in {AbsentStr, EmptyStr}) => anchor.first = <<>>

(* C11 for None and the empty string alone *)
C11_EmptyName ==
    (anchor.passes >= 1 /\ anchor_name \in {AbsentStr, EmptyStr}) => anchor.out = <<>>

----------------------------------------------------------------------------
(* Claims about the family members. *)

\* the member bullets of the block of the record with envelope id e
MemberBulletsOf(e) ==
    LET its == SelectSeq(worldbook.doc, LAMBDA it :
                   it.eid = e /\ it.k \in {"family_member", "unknown_member"})
    IN  [i \in 1..Len(its) |-> member_bullet(its[i])]

UnknownMemberBullet(c) ==
    <<"-", " ", "*", "*", "U", "n", "k", "n", "o", "w", "n", " ",
      "m", "e", "m", "b", "e", "r", " ">> \o StrOf(c) \o <<"*", "*">>

\* the character index and the identity map resolve the character id c
MemberKnown(c) ==
    /\ c \in DOMAIN entities.character_id_to_entity_id
    /\ entities.character_id_to_entity_id[c] \in DOMAIN entities.entity_map

MemberName(c) == entities.entity_map[entities.character_id_to_entity_id[c]].name

(* every rendered family has one bullet per listed member, in the order of
   the list: Link(name) for a resolved member, the Unknown member bullet
   for the others *)
FamilyBulletsAre(Link(_)) ==
    \A i \in 1..Len(RenderedBuckets.families) :
        LET f == RenderedBuckets.families[i]
        IN  MemberBulletsOf(f.e_id) =
              [ j \in 1..Len(f.pivotMembers) |->
                  IF MemberKnown(f.pivotMembers[j])
                  THEN <<"-", " ">> \o Link(MemberName(f.pivotMembers[j]))
                  ELSE UnknownMemberBullet(f.pivotMembers[j]) ]

EscapedLinkTo(nm) ==
    <<"[">> \o md_escape(nm) \o <<"]", "(", "#">> \o create_anchor_label(nm) \o <<")">>

(* C12 as stated: a member with character id c of a rendered family gives
   the bullet [name(e)](#anchor(name(e))) when the character index maps c
   to e and the identity map holds e, the bullet **Unknown member c**
   otherwise, and rendering does not raise. *)
C12_AsWritten == pc = "generated" => (Returned /\ FamilyBulletsAre(LinkTo))

(* C12, amended: as C12, the text of the link being the name with its
   underscores escaped: [md_escape(name(e))](#anchor(name(e))). *)
C12_FamilyMembers == pc = "generated" => (Returned /\ FamilyBulletsAre(EscapedLinkTo))

(* a rendered family lists a member that is resolved and one that is not *)
C12_Witness ==
    /\ Returned
    /\ \E i \in 1..Len(RenderedBuckets.families) :
          LET f == RenderedBuckets.families[i]
          IN  /\ f.pivotMembers = <<1, 2>>
              /\ MemberKnown(1) /\ ~MemberKnown(2)
              /\ MemberBulletsOf(f.e_id) =
                    << <<"-", " ">> \o EscapedLinkTo(MemberName(1)),
                       UnknownMemberBullet(2) >>

----------------------------------------------------------------------------
(* Claims about the order of the chapters. *)

ChapterOrder ==
    << "locations", "characters", "events", "organizations", "notes", "items",
       "families", "races", "journals", "quests", "tags", "maps", "calendars",
       "timelines" >>

ChapterRank(ch) == CHOOSE i \in 1..Len(ChapterOrder) : ChapterOrder[i] = ch

\* the chapter of a record: the one of its type
OwnChapter(r) ==
    CASE r.e_type_id \in LOCATION_TYPE_IDS -> "locations"
      [] r.e_type_id \in CHARACTER_TYPE_IDS -> "characters"
      [] r.e_type_id \in EVENT_TYPE_IDS -> "events"
      [] r.e_type_id \in ORGANIZATION_TYPE_IDS -> "organizations"
      [] r.e_type_id \in NOTE_TYPE_IDS -> "notes"
      [] r.e_type_id \in ITEM_TYPE_IDS -> "items"
      [] r.e_type_id \in FAMILY_TYPE_IDS -> "families"
      [] r.e_type_id \in RACE_TYPE_IDS -> "races"
      [] OTHER -> r.e_type \o "s"

\* the chapter headings of the document that ChapterOrder names, in order
ChapterHeadings ==
    SelectSeq(worldbook.doc, LAMBDA it :
        it.k = "chapter" /\ \E i \in 1..Len(ChapterOrder) : ChapterOrder[i] = it.ch)

(* C13: in the returned document the chapter headings appear in the order
   locations, characters, events, organizations, notes, items, families,
   races, journals, quests, tags, maps, calendars, timelines, each at most
   once, and every entity block follows the heading of its own chapter
   with no other chapter heading in between. *)
C13_ChapterOrder ==
    Returned =>
      /\ \A i, j \in 1..Len(ChapterHeadings) :
            i < j => ChapterRank(ChapterHeadings[i].ch) < ChapterRank(ChapterHeadings[j].ch)
      /\ \A p \in 1..Len(worldbook.doc) :
            worldbook.doc[p].k = "heading" =>
              \E q \in 1..(p - 1) :
                  /\ worldbook.doc[q].k = "chapter"
                  /\ worldbook.doc[q].ch = OwnChapter(entries[worldbook.doc[p].eid])
                  /\ \A q2 \in (q + 1)..p : worldbook.doc[q2].k # "chapter"

(* a document with a block in the families chapter and one in the timelines
   chapter *)
C13_Witness ==
    /\ Returned
    /\ \E p \in 1..Len(worldbook.doc) :
          worldbook.doc[p].k = "heading" /\ worldbook.doc[p].ch = "families"
    /\ \E p \in 1..Len(worldbook.doc) :
          worldbook.doc[p].k = "heading" /\ worldbook.doc[p].ch = "timelines"

----------------------------------------------------------------------------
(* Claims about the depth cap. *)

\* the position of the parent of the record at position i, or Absent
ParentPosition(i) == ParentRef(OwnChapter(entries[i]), entries[i])

\* the depth of the record at position i in its chain (a root has depth 0)
RECURSIVE TreeDepth(_)
TreeDepth(i) ==
    IF ParentPosition(i) = Absent THEN 0 ELSE 1 + TreeDepth(ParentPosition(i))

DepthCap(ch) == IF ch \in {"locations", "races"} THEN 10 ELSE 5

\* the heading blocks of the record with envelope id e
HeadingsOf(e) ==
    SelectSeq(worldbook.doc, LAMBDA it : it.k = "heading" /\ it.eid = e)

(* C14: a node at tree depth d is rendered if and only if d <= 5 in a
   generic chapter and d <= 10 in the location and race chapters; a node
   within the cap has its one block at its depth, a node beyond the cap
   has none, and nothing is raised. *)
C14_DepthCap ==
    pc = "generated" =>
      /\ Returned
      /\ \A i \in 1..Len(entries) :
            IF TreeDepth(i) <= DepthCap(OwnChapter(entries[i]))
            THEN /\ Len(HeadingsOf(i)) = 1
                 /\ HeadingsOf(i)[1].depth = TreeDepth(i)
                 /\ HeadingsOf(i)[1].ch = OwnChapter(entries[i])
            ELSE HeadingsOf(i) = <<>>

(* a chain of events that reaches depth 6: the node at depth 5 is rendered,
   the node at depth 6 is not *)
C14_WitnessGeneric ==
    /\ Returned
    /\ \E i, j \in 1..Len(entries) :
          /\ OwnChapter(entries[i]) = "events"
          /\ TreeDepth(i) = 5 /\ TreeDepth(j) = 6
          /\ Len(HeadingsOf(i)) = 1 /\ HeadingsOf(j) = <<>>

(* a chain of locations or of races that reaches depth 11: the node at
   depth 10 is rendered, the node at depth 11 is not *)
C14_WitnessDeep ==
    /\ Returned
    /\ \E i, j \in 1..Len(entries) :
          /\ OwnChapter(entries[i]) \in {"locations", "races"}
          /\ TreeDepth(i) = 10 /\ TreeDepth(j) = 11
          /\ Len(HeadingsOf(i)) = 1 /\ HeadingsOf(j) = <<>>

----------------------------------------------------------------------------
(* Posts. *)

\* the headings of the posts of the record at position e
PostHeadingsOf(e) == SelectSeq(worldbook.doc, LAMBDA it : it.k = "post" /\ it.eid = e)

\* visibility_id = 1 (the default of an absent one), or include_private
PostVisible(post) == post.visibility_id \in {Absent, 1} \/ include_private
\* the body is neither empty nor a bare line break
PostHasBody(post) ==
    post.entry \notin {AbsentStr, EmptyStr, <<"<", "b", "r", ">">>}

\* the post is rendered once, one level below the heading of its owner
PostRendered(e, post) ==
    \E i \in 1..Len(PostHeadingsOf(e)) :
        /\ PostHeadingsOf(e)[i].n = post.position
        /\ PostHeadingsOf(e)[i].depth = HeadingsOf(e)[1].depth + 1

PostRule(e) ==
    \A p \in 1..Len(entries[e].e_posts) :
        LET post == entries[e].e_posts[p]
        IN  PostRendered(e, post)
              <=> (include_posts /\ PostVisible(post) /\ PostHasBody(post))

(* C15: a post of a rendered entity of any type appears as a sub-section
   one heading level below its owner if and only if include_posts is true,
   the post is visible (visibility_id = 1, or include_private is true) and
   its body is neither empty nor a bare line break. *)
C15_AsWritten ==
    (pc = "generated" /\ Returned) =>
      \A e \in 1..Len(entries) : HeadingsOf(e) # <<>> => PostRule(e)

(* the rule of C15 on the writers that write posts: write_hierarchical_entity
   and the characters chapter *)
C15_PostWriters ==
    (pc = "generated" /\ Returned) =>
      \A e \in 1..Len(entries) :
          (HeadingsOf(e) # <<>>
             /\ OwnChapter(entries[e]) \notin {"locations", "organizations", "races"})
            => PostRule(e)

\* a post with a body under a rendered event or character is in the output
C15_Witness ==
    /\ Returned
    /\ \E e \in 1..Len(entries) :
          /\ OwnChapter(entries[e]) \in {"events", "characters"}
          /\ HeadingsOf(e) # <<>>
          /\ \E p \in 1..Len(entries[e].e_posts) :
                PostRendered(e, entries[e].e_posts[p])

----------------------------------------------------------------------------
(* The type filters. *)

\* the positions of the records whose envelope type_id is in type_ids
Matching(type_ids) ==
    { i \in 1..Len(entries) :
        entries[i].has_entity /\ entries[i].e_type_id \in type_ids }

\* the j-th smallest position of a set of positions
NthOf(ps, j) == CHOOSE p \in ps : Cardinality({q \in ps : q <= p}) = j

\* out holds exactly the matching records, in their order in entries
IsFiltered(out, type_ids) ==
    /\ Len(out) = Cardinality(Matching(type_ids))
    /\ \A j \in 1..Len(out) : out[j] = entries[NthOf(Matching(type_ids), j)]

\* d is a dict of the matching records, each under its envelope id
IsFilteredDict(d, type_ids) ==
    /\ IsFiltered(dict_values(d), type_ids)
    /\ \A j \in 1..Len(d) : d[j].k = d[j].v.e_id
    /\ \A i, j \in 1..Len(d) : d[i].k = d[j].k => i = j

TypeIdSets ==
    { CHARACTER_TYPE_IDS, LOCATION_TYPE_IDS, EVENT_TYPE_IDS, ORGANIZATION_TYPE_IDS,
      ITEM_TYPE_IDS, FAMILY_TYPE_IDS, NOTE_TYPE_IDS, RACE_TYPE_IDS }

\* the type buckets, locations standing for charlocations too
TypeBuckets ==
    { "characters", "locations", "events", "organizations", "items", "families",
      "notes", "races" }

BucketsFiltered ==
    /\ IsFiltered(entities.characters, CHARACTER_TYPE_IDS)
    /\ IsFiltered(entities.events, EVENT_TYPE_IDS)
    /\ IsFiltered(entities.organizations, ORGANIZATION_TYPE_IDS)
    /\ IsFiltered(entities.items, ITEM_TYPE_IDS)
    /\ IsFiltered(entities.families, FAMILY_TYPE_IDS)
    /\ IsFiltered(entities.notes, NOTE_TYPE_IDS)
    /\ IsFiltered(entities.races, RACE_TYPE_IDS)
    /\ IsFiltered(entities.locations, LOCATION_TYPE_IDS)
    /\ entities.charlocations = entities.locations
    /\ \A type_ids \in TypeIdSets :
          /\ IsFiltered(filter_entities_by_type(entries, type_ids), type_ids)
          /\ IsFilteredDict(filter_entities_by_type_dict(entries, type_ids), type_ids)

AtMostOneBucket ==
    /\ \A s, t \in TypeIdSets : s # t => s \cap t = {}
    /\ \A i \in 1..Len(entries) :
          Cardinality({ b \in TypeBuckets :
              \E j \in 1..Len(entities[b]) : entities[b][j] = entries[i] }) <= 1

(* C16: when process_entities has filtered the loaded list, the list and
   its records are as they were; every list bucket holds exactly the
   records whose envelope type_id is in its id set, in their original
   order; filter_entities_by_type_dict holds the same records, each under
   its envelope id; the id sets are pairwise disjoint and every record is
   in at most one type bucket, locations and charlocations being equal. *)
C16_Filters ==
    [][ (pc = "start" /\ pc' = "processed")
          => (entries' = entries /\ BucketsFiltered' /\ AtMostOneBucket') ]_vars

\* two events of different type ids in the events bucket, a location in
\* the dict and a record that no bucket holds
C16_Witness ==
    /\ pc = "processed"
    /\ Len(entities.events) + Len(entities.locations) = 2
    /\ Len(entities.events) \in {0, 2}
    /\ Len(entries) = 3
    /\ \E i \in 1..3 : \A b \in TypeBuckets :
          \A j \in 1..Len(entities[b]) : entities[b][j] # entries[i]
    /\ \E i, j \in 1..3 : i < j /\ entries[i].e_type_id > entries[j].e_type_id
                             /\ {entries[i].e_type_id, entries[j].e_type_id}
                                  \in SUBSET (EVENT_TYPE_IDS \cup LOCATION_TYPE_IDS)

----------------------------------------------------------------------------
(* The frame of generate_worldbook. *)

(* C17: a call of generate_worldbook, with include_private true or false,
   returning or raising, leaves the identity map, the character index and
   every bucket of the caller's dict with exactly the entries they had
   before the call. *)
C17_ReadOnly ==
    [][ (pc = "processed" /\ pc' = "generated") => entities' = entities ]_vars

\* a call that filtered a private record out of what it rendered, the
\* record still being in the caller's bucket
C17_Witness ==
    /\ Returned
    /\ ~include_private
    /\ \E b \in TypeBuckets : \E j \in 1..Len(entities[b]) :
          /\ is_private_obj(entities[b][j])
          /\ HeadingsOf(entities[b][j].e_id) = <<>>
    /\ entities.entity_map # <<>>

----------------------------------------------------------------------------
(* load_config. *)

JsonScalars == {"true", "false"} \cup JsonStrings

(* the object a text is the JSON of: "{}", "{k: v}" with a scalar v, and
   "{k: {}}" are the objects of up to six tokens *)
IsObjectText(toks) ==
    \/ toks = <<"{", "}">>
    \/ /\ Len(toks) = 5
       /\ toks[1] = "{" /\ toks[2] \in JsonStrings /\ toks[3] = ":"
       /\ toks[4] \in JsonScalars /\ toks[5] = "}"
    \/ /\ Len(toks) = 6
       /\ toks[1] = "{" /\ toks[2] \in JsonStrings /\ toks[3] = ":"
       /\ toks[4] = "{" /\ toks[5] = "}" /\ toks[6] = "}"

\* the file sets include_private
SetsIncludePrivate(toks) == Len(toks) > 2 /\ toks[2] = "include_private"

MemberOf(toks) ==
    IF Len(toks) = 5 THEN JsonScalar(toks[4]) ELSE JsonDict(<<>>)

FileHasObject ==
    /\ config_file.exists /\ config_file.readable
    /\ IsObjectText(config_file.text)

(* C18: load_config returns, and what it returns has the key
   include_private.  When the file is missing, cannot be read, is not
   valid JSON or its value is not an object, the result is exactly
   {include_private: false}; otherwise it is the file's object, with
   include_private false when the file does not set it. *)
C18_LoadConfig ==
    (config.status # "none" /\ Len(config_file.text) <= 6) =>
      /\ config.status = "returned"
      /\ DictHas(config.value, "include_private")
      /\ IF ~FileHasObject
         THEN config.value = default_config
         ELSE LET toks == config_file.text
              IN  /\ Len(toks) > 2 =>
                        /\ DictHas(config.value, toks[2])
                        /\ DictGet(config.value, toks[2]) = MemberOf(toks)
                  /\ ~SetsIncludePrivate(toks) =>
                        DictGet(config.value, "include_private") = JsonScalar("false")
                  /\ \A i \in 1..Len(config.value) :
                        config.value[i].k = "include_private"
                          \/ (Len(toks) > 2 /\ config.value[i].k = toks[2])

\* a file that sets another key only: the result has both keys
C18_Witness ==
    /\ config.status = "returned"
    /\ FileHasObject
    /\ Len(config_file.text) = 5
    /\ ~SetsIncludePrivate(config_file.text)
    /\ Len(config.value) = 2

----------------------------------------------------------------------------
(* fetch_with_retries. *)

\* the positions of the GETs among the calls
GetsOf(calls) == { i \in 1..Len(calls) : calls[i] # "sleep" }
FailedGetsOf(calls) == { i \in GetsOf(calls) : calls[i] # "200" }

(* C19: a call makes at most max_retries GETs; a response with status 200
   ends it at once and is what it returns; there is one sleep between two
   consecutive GETs and none after the last one; the call returns None if
   and only if max_retries GETs were made and all of them failed (another
   status or an exception); no exception of a GET leaves the call. *)
C19_Retries ==
    LET calls == fetch.calls
    IN  /\ Cardinality(GetsOf(calls)) <= fetch.max_retries
        /\ \A i \in 1..Len(calls) :
              /\ calls[i] = "200" =>
                    i = Len(calls) /\ fetch.pc = "returned" /\ fetch.result = "response"
              /\ (i \in GetsOf(calls) /\ i < Len(calls)) =>
                    calls[i + 1] = "sleep"
              /\ calls[i] = "sleep" =>
                    /\ i > 1 /\ (i - 1) \in FailedGetsOf(calls)
                    /\ (i = Len(calls) => fetch.pc = "get")
        /\ fetch.pc \in {"idle", "get", "sleep", "failed", "returned"}
        /\ fetch.pc = "returned" =>
              /\ fetch.result \in {"response", "None"}
              /\ fetch.result = "None"
                    <=> /\ Cardinality(GetsOf(calls)) = fetch.max_retries
                        /\ FailedGetsOf(calls) = GetsOf(calls)
              /\ fetch.result = "response"
                    <=> (calls # <<>> /\ calls[Len(calls)] = "200")

\* a call that failed twice, once by an exception, slept twice and then
\* returned the response of its third GET
C19_Witness ==
    /\ fetch.pc = "returned"
    /\ fetch.result = "response"
    /\ Len(fetch.calls) = 5
    /\ \E i \in 1..5 : fetch.calls[i] = "exception"

\* a call whose GETs all failed has returned None without a last sleep
C19_WitnessNone ==
    /\ fetch.pc = "returned"
    /\ fetch.result = "None"
    /\ fetch.max_retries = 3
    /\ Len(fetch.calls) = 5

----------------------------------------------------------------------------
(* Self-referential parents. *)

\* the id under which the record is a node of its chapter's tree
NodeIdOf(ch, r) == IF ch \in {"locations", "races"} THEN r.id ELSE node_id(r)

\* the resolved parent id of the record is its own node id
SelfParent(ch, r) ==
    /\ TruthyInt(ParentRef(ch, r))
    /\ ParentRef(ch, r) = NodeIdOf(ch, r)

(* C20 as stated: a record whose resolved parent id is its own node id is a
   root of its chapter's forest and is rendered exactly once, at depth 0;
   it is neither its own child nor dropped. *)
C20_AsWritten ==
    (pc = "generated" /\ Returned) =>
      \A ch \in HierarchicalChapters : \A r \in BucketSet(ch) :
          SelfParent(ch, r) =>
              /\ Len(HeadingsOf(r.e_id)) = 1
              /\ HeadingsOf(r.e_id)[1].depth = 0

(* what the code does with such a record: it is attached to itself and,
   being no root, is not written at all *)
C20_SelfParentDropped ==
    (pc = "generated" /\ Returned) =>
      \A ch \in HierarchicalChapters : \A r \in BucketSet(ch) :
          (SelfParent(ch, r)
             /\ \A q \in BucketSet(ch) : NodeIdOf(ch, q) = NodeIdOf(ch, r) => q = r)
            => HeadingsOf(r.e_id) = <<>>

----------------------------------------------------------------------------
(* The depth stored in the nodes of a tree. *)

\* the chapters whose tree is built of node objects
TreeChapters == GenericChapters \cup {"locations"}

(* the number of records on the parent chain of the record at position i,
   or 0 when the chain does not end within fuel records; the top-level id
   of a record of these lists is its position *)
RECURSIVE ChainLength(_, _)
ChainLength(i, fuel) ==
    IF fuel = 0 THEN 0
    ELSE IF ~TruthyInt(ParentRef(OwnChapter(entries[i]), entries[i])) THEN 1
    ELSE IF ParentRef(OwnChapter(entries[i]), entries[i]) \notin 1..Len(entries) THEN 1
    ELSE LET n == ChainLength(ParentRef(OwnChapter(entries[i]), entries[i]), fuel - 1)
         IN  IF n = 0 THEN 0 ELSE n + 1

\* no parent chain of the loaded list comes back to itself
Acyclic == \A i \in 1..Len(entries) : ChainLength(i, Len(entries)) # 0

\* the key of the node a node is attached to, or Absent for a root
AttachedTo(tree, k) ==
    IF \E p \in DOMAIN tree.children :
          \E j \in 1..Len(tree.children[p]) : tree.children[p][j].k = k
    THEN CHOOSE p \in DOMAIN tree.children :
          \E j \in 1..Len(tree.children[p]) : tree.children[p][j].k = k
    ELSE Absent

(* C21 as stated: when the trees are built of an acyclic bucket, in any
   input order, every root node has the stored depth 0 and every other
   node the stored depth of its parent plus one. *)
C21_AsWritten ==
    (pc = "generated" /\ Returned /\ Acyclic) =>
      \A ch \in TreeChapters :
        LET tree == worldbook.forest[ch]
        IN  \A k \in DOMAIN tree.depth :
              tree.depth[k] = IF AttachedTo(tree, k) = Absent THEN 0
                              ELSE tree.depth[AttachedTo(tree, k)] + 1

(* the stored depths are right when every record follows its parent in
   the list *)
C21_ParentsFirst ==
    (pc = "generated" /\ Returned /\ Acyclic
       /\ \A i \in 1..Len(entries) :
             ParentRef(OwnChapter(entries[i]), entries[i]) = Absent
               \/ ParentRef(OwnChapter(entries[i]), entries[i]) < i) =>
      \A ch \in TreeChapters :
        LET tree == worldbook.forest[ch]
        IN  \A k \in DOMAIN tree.depth :
              tree.depth[k] = IF AttachedTo(tree, k) = Absent THEN 0
                              ELSE tree.depth[AttachedTo(tree, k)] + 1

----------------------------------------------------------------------------
(* Parent chains that come back to themselves. *)

\* the parent chain of the record at position i never ends
OnCycle(i) == ChainLength(i, Len(entries)) = 0

\* two different records that name each other as parent
TwoCycle ==
    \E i, j \in 1..Len(entries) :
        /\ i # j
        /\ ParentRef(OwnChapter(entries[i]), entries[i]) = j
        /\ ParentRef(OwnChapter(entries[j]), entries[j]) = i

(* C22 as stated: when the parent chain of some records comes back to
   itself through resolvable ids, the traversal recurses without bound and
   generate_worldbook does not return normally. *)
C22_AsWritten ==
    (pc = "generated" /\ \E i \in 1..Len(entries) : OnCycle(i)) => ~Returned

(* C22: generate_worldbook returns on such a bucket; no record of a cycle
   is a root, so the traversal never reaches the records whose parent
   chain does not end, and none of them has a block. *)
C22_CycleNotTraversed ==
    pc = "generated" =>
      /\ Returned
      /\ \A i \in 1..Len(entries) : OnCycle(i) => HeadingsOf(i) = <<>>

\* a bucket with a cycle of two records and a third record that is rendered
C22_Witness ==
    /\ Returned
    /\ TwoCycle
    /\ \E i \in 1..Len(entries) : ~OnCycle(i) /\ Len(HeadingsOf(i)) = 1

----------------------------------------------------------------------------
(* The order of the blocks of a chapter. *)

\* the headings of the entity blocks of a chapter, in document order
HeadingSeq(ch) ==
    SelectSeq(worldbook.doc, LAMBDA it : it.k = "heading" /\ it.ch = ch)

\* the display name of the record with envelope id e
DisplayName(e) ==
    OrStr(entries[e].name, GetStr(entries[e].e_name, UNNAMED))

\* the record at p is the parent of the record at q, both having a block
IsParentBlock(H, p, q) ==
    ParentRef(H[q].ch, entries[H[q].eid]) = NodeIdOf(H[p].ch, entries[H[p].eid])

\* the position of the parent block of the block at q, or 0 for a root
ParentBlock(H, q) ==
    IF \E p \in 1..Len(H) : IsParentBlock(H, p, q)
    THEN CHOOSE p \in 1..Len(H) : IsParentBlock(H, p, q)
    ELSE 0

(* C23: in every hierarchical chapter the blocks are in depth-first
   pre-order: a block follows the block of its parent, one level deeper,
   with nothing but blocks of the parent's subtree in between; and two
   siblings, roots included, are in non-decreasing code point order of
   their display names. *)
C23_PreOrder ==
    (pc = "generated" /\ Returned) =>
      \A ch \in HierarchicalChapters :
        LET H == HeadingSeq(ch)
        IN  /\ \A p, q \in 1..Len(H) : H[p].eid = H[q].eid => p = q
            /\ \A q \in 1..Len(H) :
                  LET p == ParentBlock(H, q)
                  IN  IF p = 0 THEN H[q].depth = 0
                      ELSE /\ p < q
                           /\ H[q].depth = H[p].depth + 1
                           /\ \A m \in (p + 1)..(q - 1) : H[m].depth > H[p].depth
            /\ \A p, q \in 1..Len(H) :
                  (p < q /\ ParentBlock(H, p) = ParentBlock(H, q)) =>
                      ~StrLess(DisplayName(H[q].eid), DisplayName(H[p].eid))

\* a root with a grandchild, or with two children that are listed against
\* the order of their names
C23_Witness ==
    /\ Returned
    /\ \E ch \in HierarchicalChapters :
          LET H == HeadingSeq(ch)
          IN  /\ Len(H) = 3
              /\ H[1].eid = 1 /\ H[2].eid = 3 /\ H[3].eid = 2
              /\ H[2].depth = 1 /\ H[3].depth = 1
              /\ StrLess(DisplayName(3), DisplayName(2))

----------------------------------------------------------------------------
(* upload_or_update_file. *)

(* C24: in every call, a stored id whose update succeeds is reused: no
   file is created and the stored file is as it was; a file is created
   only when no id was loaded or the update failed; the stored file
   changes only after a successful create; and a failed create makes the
   call return False with the stored file as it was. *)
C24_ReuseFileId ==
    /\ drive.update = "ok" =>
          /\ drive.create = "none"
          /\ drive.stored = drive.at_call
          /\ drive.file_id = load_file_id(drive.at_call)
    /\ drive.create # "none" =>
          ~TruthyInt(load_file_id(drive.at_call)) \/ drive.update = "failed"
    /\ (drive.calls > 0 /\ drive.stored # drive.at_call) => drive.create = "ok"
    /\ drive.create = "failed" =>
          /\ drive.pc = "returned" /\ drive.result = "False"
          /\ drive.stored = drive.at_call
    /\ drive.created <= 1 + drive.calls

\* a second call that updated the file the first call created and stored
C24_Witness ==
    /\ drive.calls = 2
    /\ drive.pc = "returned" /\ drive.result = "True"
    /\ drive.update = "ok"
    /\ drive.created = 1
    /\ drive.stored = [state |-> "valid", file_id |-> 1]

----------------------------------------------------------------------------
(* get_drive_service. *)

\* the service comes with a credential loaded valid, refreshed or new
ServiceCredential ==
    auth.result = "service" =>
        \/ auth.creds = "valid" /\ auth.load = "ok"
        \/ auth.creds = "refreshed" /\ auth.refresh = "ok"
        \/ auth.creds = "new" /\ auth.flow = "ok"

\* the interactive flow has started after a failed load or a failed refresh
FlowAfterFailure ==
    /\ auth.at_flow # "none"
    /\ auth.load = "failed" \/ auth.refresh \in {"RefreshError", "Exception", "no_dump"}

\* a refreshed or new credential is in the token file when the service returns
WrittenBeforeReturn ==
    (auth.result = "service" /\ auth.creds \in {"refreshed", "new"}) =>
        auth.token = "valid"

\* a failed flow propagates and leaves the token file as it was
FailedFlowWritesNothing ==
    auth.flow \in {"FileNotFoundError", "Exception"} =>
        /\ auth.pc = "raised" /\ auth.result = "exception"
        /\ auth.token = auth.at_flow

(* C25: get_drive_service returns a service only with a credential that
   was loaded valid, refreshed or newly obtained; whenever the load or
   the refresh failed, the token file is gone when the interactive flow
   starts; a refreshed or new credential is in the token file when the
   service is returned; a failed flow propagates its exception and writes
   no token file. *)
C25_AsWritten ==
    /\ ServiceCredential
    /\ FlowAfterFailure => auth.at_flow = "missing"
    /\ WrittenBeforeReturn
    /\ FailedFlowWritesNothing

(* What does hold: the parts about the returned service, the written
   credential and the failed flow, and the removal whenever os.remove
   does not fail, which the model cannot tell from the state; so the
   token file at the start of the flow is missing or the one that failed. *)
C25_RemovalAttempted ==
    /\ ServiceCredential
    /\ WrittenBeforeReturn
    /\ FailedFlowWritesNothing
    /\ FlowAfterFailure => auth.at_flow \in {"missing", "unloadable", "expired"}

\* the flow has started next to a token file that did not load
C25_TokenLeft ==
    /\ auth.pc = "flow" /\ auth.load = "failed"
    /\ auth.at_flow = "unloadable" /\ auth.token = "unloadable"

----------------------------------------------------------------------------
(* main_with_config. *)

\* the first n steps, in their order
FirstSteps(n) == SubSeq(Steps, 1, n)

\* the number of steps before the one the run is at
StepsBefore ==
    CASE run.pc = "idle" -> 0
      [] run.pc \in {"skip", "done"} -> 5
      [] OTHER -> CHOOSE i \in 1..Len(Steps) : Steps[i] = run.pc

(* C26: the steps are attempted in the order fetch, process, generate,
   HTML, PDF, upload; an exception in a step is logged and the run goes
   on to the next step; the upload is attempted exactly when
   convert_to_pdf returned a path, and is recorded as SKIPPED otherwise. *)
C26_StepOrder ==
    /\ run.attempted = FirstSteps(Len(run.attempted))
    /\ run.pc \in StepNames => run.attempted = FirstSteps(StepsBefore - 1)
    /\ run.raised \subseteq run.errors
    /\ \A st \in run.raised : st \in { run.attempted[i] : i \in 1..Len(run.attempted) }
    /\ run.pc = "done" =>
          /\ Len(run.attempted) >= 5
          /\ ("upload_to_drive" \in { run.attempted[i] : i \in 1..Len(run.attempted) })
                <=> (run.output_pdf # "None")
          /\ run.output_pdf = "None" <=> run.step_results["upload_to_drive"] = "SKIPPED"
          /\ run.output_pdf # "None" => run.step_results["upload_to_drive"] = "SUCCESS"

\* every step before the upload raised, and the run went through them all
C26_WitnessAllFailed ==
    /\ run.pc = "done"
    /\ run.raised = {"process_entities", "generate_markdown", "convert_to_html", "fetch_entities"}
    /\ Len(run.attempted) = 5
    /\ run.step_results["upload_to_drive"] = "SKIPPED"

\* the upload was attempted after a PDF came out of a run with a failed step
C26_WitnessUpload ==
    /\ run.pc = "done"
    /\ run.output_pdf = "worldbook.pdf"
    /\ "process_entities" \in run.raised
    /\ Len(run.attempted) = 6

----------------------------------------------------------------------------
(* The incremental fetch. *)

\* e will be taken by the filter of the next run
StillEligible(e) == is_updated(sync.updated_at[e], sync.last_run)

(* C27: at the end of a fetch, every entity that was newer than the
   stored last-run time when the fetch started has been saved by it or
   is still newer than the last-run time now stored. *)
C27_AsWritten ==
    sync.pc = "saved" =>
        \A e \in sync.eligible : e \in sync.fetched \/ StillEligible(e)

(* What does hold: the entities the fetch has saved are saved in their
   current version, and a fetch that ends in an exception leaves the
   last-run time as it was. *)
C27_SavedAreCurrent ==
    /\ sync.pc \in {"fetching", "saved"} =>
          \A e \in sync.fetched : sync.saved[e] = sync.updated_at[e]
    /\ sync.pc = "fetching" => \A e \in sync.eligible : StillEligible(e)

\* a fetch has ended with an entity neither saved nor eligible any more
C27_Lost ==
    /\ sync.pc = "saved"
    /\ \E e \in sync.eligible :
          /\ e \notin sync.fetched
          /\ ~StillEligible(e)
          /\ sync.saved[e] # sync.updated_at[e]

----------------------------------------------------------------------------
(* One node per record. *)

\* the forest of chapter ch has one node for each record of its bucket
OneNodePerRecord(ch) ==
    /\ Len(worldbook.forest[ch].nodes) = Len(RenderedBuckets[ch])
    /\ \A i \in 1..Len(RenderedBuckets[ch]) :
          \E j \in 1..Len(worldbook.forest[ch].nodes) :
              worldbook.forest[ch].nodes[j].v.e_id = RenderedBuckets[ch][i].e_id

\* the keys under which the records of the bucket are stored are distinct
DistinctKeys(ch) ==
    \A i, j \in 1..Len(RenderedBuckets[ch]) :
        i # j => NodeIdOf(ch, RenderedBuckets[ch][i]) # NodeIdOf(ch, RenderedBuckets[ch][j])

\* the envelope ids of the records of the bucket are distinct
DistinctEnvelopeIds(ch) ==
    \A i, j \in 1..Len(RenderedBuckets[ch]) :
        i # j => RenderedBuckets[ch][i].e_id # RenderedBuckets[ch][j].e_id

(* C28 as stated: for every bucket whose records have pairwise distinct
   envelope ids, the forest holds exactly one node per record of the
   bucket. *)
C28_AsWritten ==
    Returned =>
        \A ch \in TreeChapters : DistinctEnvelopeIds(ch) => OneNodePerRecord(ch)

(* What does hold: one node per record in the buckets whose node keys,
   the top-level ids, are pairwise distinct. *)
C28_DistinctKeys ==
    Returned =>
        \A ch \in TreeChapters : DistinctKeys(ch) => OneNodePerRecord(ch)

\* two locations of the two location types share their key: one node
C28_Collision ==
    /\ Returned
    /\ Len(RenderedBuckets.locations) = 2
    /\ DistinctEnvelopeIds("locations")
    /\ RenderedBuckets.locations[1].e_type_id # RenderedBuckets.locations[2].e_type_id
    /\ Len(worldbook.forest["locations"].nodes) = 1

----------------------------------------------------------------------------
(* The document and the order of the records. *)

(* the text of a document: what is written of each item, without the
   envelope id of the record it came from *)
TextOf(doc) ==
    [ i \in 1..Len(doc) |->
        [ k |-> doc[i].k, ch |-> doc[i].ch, s |-> doc[i].s, a |-> doc[i].a,
          depth |-> doc[i].depth ] ]

\* generate_worldbook on the records es as process_entities sorts them
DocumentOf(es) ==
    generate_worldbook(process_entities(es, FALSE), include_private, include_posts)

(* C29 as stated: for every permutation of the records, generate_worldbook
   returns the identical document, also when two siblings have the same
   display name. *)
C29_AsWritten ==
    Returned =>
        \A other \in Reorderings(entries) :
            /\ DocumentOf(other).status = "returned"
            /\ TextOf(DocumentOf(other).doc) = TextOf(worldbook.doc)

\* the record the record at position i is attached to, Absent for a root
ParentOf(i) ==
    LET ref == ParentRef(OwnChapter(entries[i]), entries[i])
    IN  IF ref \in 1..Len(entries) THEN ref ELSE Absent

\* no two records with the same parent have the same name
DistinctSiblingNames ==
    \A i, j \in 1..Len(entries) :
        (i # j /\ ParentOf(i) = ParentOf(j)) => entries[i].name # entries[j].name

(* What does hold where the node keys are distinct: the document is the
   same for every order of the records when no two siblings have the
   same name. *)
C29_DistinctNames ==
    (Returned /\ DistinctSiblingNames) =>
        \A other \in Reorderings(entries) :
            /\ DocumentOf(other).status = "returned"
            /\ TextOf(DocumentOf(other).doc) = TextOf(worldbook.doc)

\* two roots of one name, the first with a child, have been rendered
C29_SameNameSiblings ==
    /\ Returned
    /\ Len(entries) = 3
    /\ entries[1].name = entries[2].name
    /\ \E other \in Reorderings(entries) :
          TextOf(DocumentOf(other).doc) # TextOf(worldbook.doc)

----------------------------------------------------------------------------
(* The bounds and the order of paginate_and_columnize. *)

\* the lines of ls that are not blank, in their order
RECURSIVE NonBlank(_)
NonBlank(ls) ==
    IF ls = <<>> THEN <<>>
    ELSE (IF Strip(Head(ls)) = <<>> THEN <<>> ELSE <<Head(ls)>>) \o NonBlank(Tail(ls))

\* sub can be had from ls by leaving lines out
RECURSIVE IsSubsequence(_, _)
IsSubsequence(sub, ls) ==
    IF sub = <<>> THEN TRUE
    ELSE IF ls = <<>> THEN FALSE
    ELSE IF Head(sub) = Head(ls) THEN IsSubsequence(Tail(sub), Tail(ls))
    ELSE IsSubsequence(sub, Tail(ls))

\* the lines of page p of the output, first column then second
PageLines(p) == ColumnsOf(pages.out[p])[1] \o ColumnsOf(pages.out[p])[2]

\* the input lines that went into page p
PageInput(p) ==
    SubSeq(lines, (p - 1) * lines_per_page + 1,
           IF p * lines_per_page < Len(lines) THEN p * lines_per_page ELSE Len(lines))

(* C30: every page holds at most lines_per_page lines and its first
   column at most lines_per_page // 2; the lines of the pages and
   columns, read in order, are input lines in their input order; and
   every non-blank input line is in exactly one column of one page: the
   non-blank lines of each page are those of its chunk of the input. *)
C30_BoundedAndOrdered ==
    pages.done =>
      /\ \A p \in 1..Len(pages.out) :
            /\ Len(PageLines(p)) <= lines_per_page
            /\ Len(ColumnsOf(pages.out[p])[1]) <= lines_per_page \div 2
            /\ IsSubsequence(PageLines(p), PageInput(p))
            /\ NonBlank(PageLines(p)) = NonBlank(PageInput(p))
      /\ IsSubsequence(ReassembledLines, lines)
      /\ NonBlank(ReassembledLines) = NonBlank(lines)
      /\ Len(pages.out) * lines_per_page >= Len(lines)
      /\ (Len(pages.out) - 1) * lines_per_page < Len(lines) \/ lines = <<>>

\* two pages, the first full with both columns used, and a blank line gone
C30_Witness ==
    /\ pages.done
    /\ lines_per_page = 3
    /\ Len(lines) = 4
    /\ Len(pages.out) = 2
    /\ Len(ColumnsOf(pages.out[1])[1]) = 1
    /\ Len(ColumnsOf(pages.out[1])[2]) = 1
    /\ NonBlank(lines) # lines
    /\ Len(NonBlank(lines)) = 3

====
